---- MODULE Spec2Model ----
(***************************************************************************)
(* Hazard-log template engine of quillmedical                              *)
(* (safety/hazard-analysis/sub-prompts/hazard_log_generator.py).           *)
(*                                                                         *)
(* Text is modelled as TLA+ strings, character by character; Python values *)
(* (None, str, int, list) are tagged records; a dict is a function whose   *)
(* DOMAIN is the set of keys present.                                      *)
(***************************************************************************)
EXTENDS Integers, Sequences, FiniteSets, TLC

(***************************************************************************)
(* Python str primitives                                                   *)
(***************************************************************************)

\* the element of a one-element set; Only({F(x) : x \in {e}}) is F(e) with e
\* evaluated once
Only(S) == CHOOSE x \in S : TRUE

\* s[i] (1-based)
Ch(s, i) == SubSeq(s, i, i)

\* the characters of a string, as a set
CharsOf(s) == {Ch(s, i) : i \in 1..Len(s)}

Whitespace == {" ", "\t"}

UpperCase == CharsOf("ABCDEFGHIJKLMNOPQRSTUVWXYZ")

\* the regex class \w
WordChars == CharsOf("abcdefghijklmnopqrstuvwxyz") \cup UpperCase
             \cup CharsOf("0123456789_")

\* s[i:] with a 1-based i
From(s, i) == SubSeq(s, i, Len(s))

\* str.startswith
StartsWith(s, p) == Len(s) >= Len(p) /\ SubSeq(s, 1, Len(p)) = p

\* number of consecutive characters of class cls in s from position i on
RECURSIVE Run(_, _, _)
Run(s, i, cls) ==
    IF i <= Len(s) /\ Ch(s, i) \in cls THEN 1 + Run(s, i + 1, cls) ELSE 0

\* number of consecutive characters other than c in s from position i on
RECURSIVE RunNot(_, _, _)
RunNot(s, i, c) ==
    IF i <= Len(s) /\ Ch(s, i) # c THEN 1 + RunNot(s, i + 1, c) ELSE 0

\* number of consecutive whitespace characters at the end of s
RECURSIVE RunBack(_, _)
RunBack(s, i) ==
    IF i >= 1 /\ Ch(s, i) \in Whitespace THEN 1 + RunBack(s, i - 1) ELSE 0

\* str.strip()
Strip(s) ==
    LET a == Run(s, 1, Whitespace)
    IN  IF a = Len(s) THEN "" ELSE SubSeq(s, a + 1, Len(s) - RunBack(s, Len(s)))

\* sep.join(parts)
RECURSIVE Join(_, _)
Join(sep, parts) ==
    IF parts = <<>> THEN ""
    ELSE IF Len(parts) = 1 THEN parts[1]
    ELSE parts[1] \o sep \o Join(sep, Tail(parts))

\* s.split(sep) for a one-character separator, from position i on
RECURSIVE SplitFrom(_, _, _)
SplitFrom(s, sep, i) ==
    LET n == RunNot(s, i, sep)
    IN  IF i + n > Len(s) THEN <<SubSeq(s, i, Len(s))>>
        ELSE <<SubSeq(s, i, i + n - 1)>> \o SplitFrom(s, sep, i + n + 1)

\* str.split(sep) for a one-character separator
Split(s, sep) == SplitFrom(s, sep, 1)

Digits == <<"0", "1", "2", "3", "4", "5", "6", "7", "8", "9">>

\* str(n) for an int
RECURSIVE IntStr(_)
IntStr(n) ==
    IF n < 0 THEN "-" \o IntStr(0 - n)
    ELSE IF n < 10 THEN Digits[n + 1]
    ELSE IntStr(n \div 10) \o Digits[(n % 10) + 1]

(***************************************************************************)
(* Python values                                                           *)
(***************************************************************************)

PyNone == [t |-> "none"]
PyStr(s) == [t |-> "str", s |-> s]
PyInt(i) == [t |-> "int", i |-> i]
PyList(l) == [t |-> "list", l |-> l]

\* repr(v): what str() of a list shows for each of its elements
RECURSIVE Repr(_)
Repr(v) ==
    IF v.t = "str" THEN "'" \o v.s \o "'"
    ELSE IF v.t = "int" THEN IntStr(v.i)
    ELSE IF v.t = "list"
         THEN "[" \o Join(", ", [i \in 1..Len(v.l) |-> Repr(v.l[i])]) \o "]"
    ELSE "None"

\* str(value), also what an f-string interpolates
Str(v) ==
    IF v.t = "str" THEN v.s
    ELSE Repr(v)

\* dict.get(key) with the default None
Get(d, k) == IF k \in DOMAIN d THEN d[k] ELSE PyNone

(***************************************************************************)
(* Data model: FieldType, FieldOption, TemplateField                       *)
(***************************************************************************)

\* the values of the FieldType enum
FieldType ==
    {"text", "select", "multiselect", "calculate", "code", "icon", "separator",
     "prose"}

\* FieldOption(key, label, description, matchers, raw_line)
FieldOption(key, label, description, matchers, raw_line) ==
    [key |-> key, label |-> label, description |-> description,
     matchers |-> matchers, raw_line |-> raw_line]

\* TemplateField(name, field_type) with the dataclass defaults
TemplateField(name, field_type) ==
    [name |-> name, field_type |-> field_type, labels |-> <<>>,
     options |-> <<>>, placeholder_text |-> "", uses_hazard_types |-> FALSE,
     prose_lines |-> <<>>]

(***************************************************************************)
(* parse_hazard_types                                                      *)
(***************************************************************************)

\* The file is given as its lines (read_text().splitlines()).
RECURSIVE parse_hazard_types(_)
parse_hazard_types(lines) ==
    IF lines = <<>> THEN <<>>
    ELSE LET line == Strip(Head(lines))
         IN  (IF StartsWith(line, "- ") THEN <<Strip(From(line, 3))>> ELSE <<>>)
             \o parse_hazard_types(Tail(lines))

(***************************************************************************)
(* parse_template: the regular expressions                                 *)
(***************************************************************************)

NoMatch == [ok |-> FALSE]

\* re.match(r"^\[(multiselect|select|calculate|code)\](.*)$", stripped)
TypeMatch(stripped) ==
    LET alts == <<"multiselect", "select", "calculate", "code">>
        hit == {i \in 1..Len(alts) : StartsWith(stripped, "[" \o alts[i] \o "]")}
    IN  IF hit = {} THEN NoMatch
        ELSE LET i == CHOOSE j \in hit : \A k \in hit : j <= k
             IN  [ok |-> TRUE, type_str |-> alts[i],
                  remainder |-> From(stripped, Len(alts[i]) + 3)]

\* re.findall(r"\[([A-Z])\]", r) from position i on: leftmost, non-overlapping
RECURSIVE LabelMatchesFrom(_, _)
LabelMatchesFrom(r, i) ==
    IF i + 2 > Len(r) THEN <<>>
    ELSE IF Ch(r, i) = "[" /\ Ch(r, i + 1) \in UpperCase /\ Ch(r, i + 2) = "]"
         THEN <<Ch(r, i + 1)>> \o LabelMatchesFrom(r, i + 3)
    ELSE LabelMatchesFrom(r, i + 1)

\* re.findall(r"\[([A-Z])\]", remainder)
LabelMatches(remainder) == LabelMatchesFrom(remainder, 1)

\* the rest of s from r on is whitespace: \s*$
AtEnd(s, r) == Run(s, r, Whitespace) = Len(s) - r + 1

\* (?:\s*\[([^\]]+)\])?\s*$ at position r, with the bracket group taken
MatcherGroupAt(s, r) ==
    LET b == r + Run(s, r, Whitespace)
        e == b + 1 + RunNot(s, b + 1, "]")
    IN  IF b <= Len(s) /\ Ch(s, b) = "[" /\ e >= b + 2 /\ e <= Len(s)
           /\ Ch(s, e) = "]" /\ AtEnd(s, e + 1)
        THEN [ok |-> TRUE, text |-> SubSeq(s, b + 1, e - 1)]
        ELSE NoMatch

\* (?:\s*\[([^\]]+)\])?\s*$ at position r: group 4, "" when it is not taken
MatcherTail(s, r) ==
    IF MatcherGroupAt(s, r).ok THEN MatcherGroupAt(s, r)
    ELSE IF AtEnd(s, r) THEN [ok |-> TRUE, text |-> ""]
    ELSE NoMatch

\* of the candidate pairs (spaces taken by a greedy \s*, length taken by the
\* lazy group after it), the one the regex engine tries first
Preferred(C) ==
    CHOOSE x \in C : \A y \in C : x[1] > y[1] \/ (x[1] = y[1] /\ x[2] <= y[2])

\* group 3 taken as s[st..st+h-1], then the matcher tail
DescriptionTaken(s, st, h) ==
    [ok |-> TRUE, description |-> SubSeq(s, st, st + h - 1),
     matchers_str |-> MatcherTail(s, st + h).text]

\* (?::\s*(.+?))? taken at position r, followed by the matcher tail: \s* is
\* greedy (most spaces first), .+? is lazy (shortest first)
DescriptionAt(s, r) ==
    IF r > Len(s) \/ Ch(s, r) # ":" THEN NoMatch
    ELSE Only({IF C = {} THEN NoMatch
               ELSE Only({DescriptionTaken(s, r + 1 + c[1], c[2]) :
                             c \in {Preferred(C)}}) :
               C \in {{c \in (0..Run(s, r + 1, Whitespace)) \X (1..Len(s)) :
                          /\ r + c[1] + c[2] <= Len(s)
                          /\ MatcherTail(s, r + 1 + c[1] + c[2]).ok}}})

\* (?::\s*(.+?))?(?:\s*\[([^\]]+)\])?\s*$ at position r: an optional group is
\* tried taken before it is tried skipped
OptionTail(s, r) ==
    IF r <= Len(s) /\ Ch(s, r) = ":" /\ DescriptionAt(s, r).ok
    THEN DescriptionAt(s, r)
    ELSE IF MatcherTail(s, r).ok
         THEN [ok |-> TRUE, description |-> "",
               matchers_str |-> MatcherTail(s, r).text]
    ELSE NoMatch

\* groups 1 and 2 taken as s[1..w] and s[st..st+g-1], then the tail
OptionTaken(s, w, st, g) ==
    [ok |-> TRUE, key |-> SubSeq(s, 1, w), label |-> SubSeq(s, st, st + g - 1),
     description |-> OptionTail(s, st + g).description,
     matchers_str |-> OptionTail(s, st + g).matchers_str]

\* \s*([^:\[]+?)(?::\s*(.+?))?(?:\s*\[([^\]]+)\])?\s*$ at position a0, after
\* the key s[1..w] and the dash: \s* is greedy, [^:\[]+? is lazy
OptionRest(s, w, a0) ==
    Only({IF C = {} THEN NoMatch
          ELSE Only({OptionTaken(s, w, a0 + c[1], c[2]) : c \in {Preferred(C)}}) :
          C \in {{c \in (0..Run(s, a0, Whitespace)) \X (1..Len(s)) :
                     /\ a0 + c[1] + c[2] - 1 <= Len(s)
                     /\ \A i \in (a0 + c[1])..(a0 + c[1] + c[2] - 1) :
                            Ch(s, i) \notin {":", "["}
                     /\ OptionTail(s, a0 + c[1] + c[2]).ok}}})

\* re.match(r"^(\w+)\s*-\s*([^:\[]+?)(?::\s*(.+?))?(?:\s*\[([^\]]+)\])?\s*$",
\*          stripped)
OptionMatch(s) ==
    Only({IF w = 0 \/ w + sp + 1 > Len(s) \/ Ch(s, w + sp + 1) # "-" THEN NoMatch
          ELSE OptionRest(s, w, w + sp + 2) :
          w \in {Run(s, 1, WordChars)},
          sp \in {Run(s, Run(s, 1, WordChars) + 1, Whitespace)}})

\* [m.strip() for m in matchers_str.split(",") if m.strip()]
MatcherList(matchers_str) ==
    LET parts == Split(matchers_str, ",")
        stripped == [i \in 1..Len(parts) |-> Strip(parts[i])]
    IN  SelectSeq(stripped, LAMBDA m : m # "")

(***************************************************************************)
(* parse_template: the line scanner                                        *)
(***************************************************************************)

\* The scanner's locals: fields, current_field (an index into fields, 0 for
\* None: the current field is an element of the list and is updated in
\* place) and in_field_type_options.
ScanStart == [fields |-> <<>>, current_field |-> 0,
              in_field_type_options |-> FALSE]

\* fields[-1]
Last(seq) == seq[Len(seq)]

\* ScanInField with a line of prose in a typed field ending the collection
\* of its options
ScanInFieldNoteEndsOptions(st, stripped, tm, om) ==
    LET cur == st.current_field
        f == st.fields[cur]
        Put(g) == [st EXCEPT !.fields[cur] = g]
    IN  IF tm.ok
        THEN [Put([f EXCEPT !.field_type = tm.type_str,
                            !.labels = LabelMatches(Strip(tm.remainder))])
                 EXCEPT !.in_field_type_options = TRUE]
        ELSE IF stripped = "[hazard-types]"
        THEN Put([f EXCEPT !.uses_hazard_types = TRUE])
        ELSE IF st.in_field_type_options /\ om.ok
        THEN Put([f EXCEPT !.options =
                     Append(@, FieldOption(om.key, Strip(om.label),
                                           Strip(om.description),
                                           MatcherList(om.matchers_str),
                                           stripped))])
        ELSE IF st.in_field_type_options /\ stripped = "TBC"
        THEN Put([f EXCEPT !.options =
                     Append(@, FieldOption("TBC", "TBC", "To be confirmed",
                                           <<>>, stripped))])
        ELSE IF f.field_type = "text" /\ ~st.in_field_type_options
        THEN Put([f EXCEPT !.placeholder_text =
                     IF @ # "" THEN @ \o "\n" \o stripped ELSE stripped])
        ELSE [Put([f EXCEPT !.prose_lines = Append(@, stripped)])
                 EXCEPT !.in_field_type_options = FALSE]

\* ScanInField with an option line put in front of the field's options
ScanInFieldOptionPrepended(st, stripped, tm, om) ==
    LET cur == st.current_field
        f == st.fields[cur]
        Put(g) == [st EXCEPT !.fields[cur] = g]
    IN  IF tm.ok
        THEN [Put([f EXCEPT !.field_type = tm.type_str,
                            !.labels = LabelMatches(Strip(tm.remainder))])
                 EXCEPT !.in_field_type_options = TRUE]
        ELSE IF stripped = "[hazard-types]"
        THEN Put([f EXCEPT !.uses_hazard_types = TRUE])
        ELSE IF st.in_field_type_options /\ om.ok
        THEN Put([f EXCEPT !.options =
                     <<FieldOption(om.key, Strip(om.label),
                                   Strip(om.description),
                                   MatcherList(om.matchers_str),
                                   stripped)>> \o @])
        ELSE IF st.in_field_type_options /\ stripped = "TBC"
        THEN Put([f EXCEPT !.options =
                     Append(@, FieldOption("TBC", "TBC", "To be confirmed",
                                           <<>>, stripped))])
        ELSE IF f.field_type = "text" /\ ~st.in_field_type_options
        THEN Put([f EXCEPT !.placeholder_text =
                     IF @ # "" THEN @ \o "\n" \o stripped ELSE stripped])
        ELSE Put([f EXCEPT !.prose_lines = Append(@, stripped)])

\* one iteration of the while loop, inside a field (current_field is not
\* None); tm and om are the results of the two re.match calls
ScanInField(st, stripped, tm, om) ==
    LET cur == st.current_field
        f == st.fields[cur]
        Put(g) == [st EXCEPT !.fields[cur] = g]
    IN  IF tm.ok
        THEN [Put([f EXCEPT !.field_type = tm.type_str,
                            !.labels = LabelMatches(Strip(tm.remainder))])
                 EXCEPT !.in_field_type_options = TRUE]
        ELSE IF stripped = "[hazard-types]"
        THEN Put([f EXCEPT !.uses_hazard_types = TRUE])
        ELSE IF st.in_field_type_options /\ om.ok
        THEN Put([f EXCEPT !.options =
                     Append(@, FieldOption(om.key, Strip(om.label),
                                           Strip(om.description),
                                           MatcherList(om.matchers_str),
                                           stripped))])
        ELSE IF st.in_field_type_options /\ stripped = "TBC"
        THEN Put([f EXCEPT !.options =
                     Append(@, FieldOption("TBC", "TBC", "To be confirmed",
                                           <<>>, stripped))])
        ELSE IF f.field_type = "text" /\ ~st.in_field_type_options
        THEN Put([f EXCEPT !.placeholder_text =
                     IF @ # "" THEN @ \o "\n" \o stripped ELSE stripped])
        ELSE Put([f EXCEPT !.prose_lines = Append(@, stripped)])

\* ScanLine with a plain line outside a field kept only after a separator or
\* in a prose block: at the top of the file or after an icon it is skipped
ScanLineAfterSeparatorOnly(st, stripped) ==
    LET Close(fs) == [fields |-> fs, current_field |-> 0,
                      in_field_type_options |-> FALSE]
    IN  IF StartsWith(stripped, "<!-- [icon] -->")
        THEN Close(Append(st.fields, TemplateField("__icon__", "icon")))
        ELSE IF stripped = "---"
        THEN Close(Append(st.fields, TemplateField("__separator__", "separator")))
        ELSE IF StartsWith(stripped, "### ")
        THEN [fields |-> Append(st.fields,
                                TemplateField(Strip(From(stripped, 5)), "text")),
              current_field |-> Len(st.fields) + 1,
              in_field_type_options |-> FALSE]
        ELSE IF stripped = ""
        THEN st
        ELSE IF st.current_field # 0
        THEN Only({ScanInField(st, stripped, tm, om) :
                      tm \in {TypeMatch(stripped)},
                      om \in {IF st.in_field_type_options
                              THEN OptionMatch(stripped) ELSE NoMatch}})
        ELSE IF st.fields # <<>> /\ Last(st.fields).field_type = "prose"
        THEN [st EXCEPT !.fields[Len(st.fields)].prose_lines = Append(@, stripped)]
        ELSE IF st.fields # <<>> /\ Last(st.fields).field_type = "separator"
        THEN [st EXCEPT !.fields =
                 Append(@, [TemplateField("__prose__", "prose")
                               EXCEPT !.prose_lines = <<stripped>>])]
        ELSE st

\* ScanLine with a separator that leaves the open field open
ScanLineSeparatorKeepsField(st, stripped) ==
    LET Close(fs) == [fields |-> fs, current_field |-> 0,
                      in_field_type_options |-> FALSE]
    IN  IF StartsWith(stripped, "<!-- [icon] -->")
        THEN Close(Append(st.fields, TemplateField("__icon__", "icon")))
        ELSE IF stripped = "---"
        THEN [st EXCEPT !.fields =
                 Append(@, TemplateField("__separator__", "separator"))]
        ELSE IF StartsWith(stripped, "### ")
        THEN [fields |-> Append(st.fields,
                                TemplateField(Strip(From(stripped, 5)), "text")),
              current_field |-> Len(st.fields) + 1,
              in_field_type_options |-> FALSE]
        ELSE IF stripped = ""
        THEN st
        ELSE IF st.current_field # 0
        THEN Only({ScanInField(st, stripped, tm, om) :
                      tm \in {TypeMatch(stripped)},
                      om \in {IF st.in_field_type_options
                              THEN OptionMatch(stripped) ELSE NoMatch}})
        ELSE IF st.fields # <<>> /\ Last(st.fields).field_type = "prose"
        THEN [st EXCEPT !.fields[Len(st.fields)].prose_lines = Append(@, stripped)]
        ELSE [st EXCEPT !.fields =
                 Append(@, [TemplateField("__prose__", "prose")
                               EXCEPT !.prose_lines = <<stripped>>])]

\* one iteration of the while loop, on the stripped line
ScanLine(st, stripped) ==
    LET Close(fs) == [fields |-> fs, current_field |-> 0,
                      in_field_type_options |-> FALSE]
    IN  IF StartsWith(stripped, "<!-- [icon] -->")
        THEN Close(Append(st.fields, TemplateField("__icon__", "icon")))
        ELSE IF stripped = "---"
        THEN Close(Append(st.fields, TemplateField("__separator__", "separator")))
        ELSE IF StartsWith(stripped, "### ")
        THEN [fields |-> Append(st.fields,
                                TemplateField(Strip(From(stripped, 5)), "text")),
              current_field |-> Len(st.fields) + 1,
              in_field_type_options |-> FALSE]
        ELSE IF stripped = ""
        THEN st
        ELSE IF st.current_field # 0
        THEN Only({ScanInField(st, stripped, tm, om) :
                      tm \in {TypeMatch(stripped)},
                      om \in {IF st.in_field_type_options
                              THEN OptionMatch(stripped) ELSE NoMatch}})
        ELSE IF st.fields # <<>> /\ Last(st.fields).field_type = "prose"
        THEN [st EXCEPT !.fields[Len(st.fields)].prose_lines = Append(@, stripped)]
        ELSE [st EXCEPT !.fields =
                 Append(@, [TemplateField("__prose__", "prose")
                               EXCEPT !.prose_lines = <<stripped>>])]

\* the scanner's state after the first n lines
RECURSIVE Scan(_, _)
Scan(lines, n) ==
    IF n = 0 THEN ScanStart
    ELSE Only({ScanLine(st, stripped) :
                  st \in {Scan(lines, n - 1)}, stripped \in {Strip(lines[n])}})

\* parse_template, on the lines of the template file
parse_template(lines) == Scan(lines, Len(lines)).fields

(***************************************************************************)
(* HazardLogGenerator.__init__, field_names, get_field                     *)
(***************************************************************************)

\* the options injected into a field that uses the hazard types
HazardTypeOptions(hazard_types) ==
    [i \in 1..Len(hazard_types) |->
        FieldOption(hazard_types[i], hazard_types[i], "", <<>>,
                    "- " \o hazard_types[i])]

\* InjectHazardTypes with the hazard types added to the options parsed from
\* the template
InjectHazardTypesAppending(fs, hazard_types) ==
    [i \in 1..Len(fs) |->
        IF fs[i].uses_hazard_types
        THEN [fs[i] EXCEPT !.options = @ \o HazardTypeOptions(hazard_types)]
        ELSE fs[i]]

\* self.fields after the injection loop of __init__
InjectHazardTypes(fs, hazard_types) ==
    [i \in 1..Len(fs) |->
        IF fs[i].uses_hazard_types
        THEN [fs[i] EXCEPT !.options = HazardTypeOptions(hazard_types)]
        ELSE fs[i]]

\* f.name.startswith("__")
IsDunder(name) == StartsWith(name, "__")

\* self._field_map: a later field of the same name replaces an earlier one
FieldMap(fs) ==
    LET names == {fs[i].name : i \in {j \in 1..Len(fs) : ~IsDunder(fs[j].name)}}
    IN  [n \in names |->
            fs[CHOOSE i \in 1..Len(fs) :
                  /\ fs[i].name = n
                  /\ \A j \in 1..Len(fs) : fs[j].name = n => j <= i]]

\* the field_names property
field_names(fs) ==
    LET keep == SelectSeq(fs, LAMBDA f : ~IsDunder(f.name))
    IN  [i \in 1..Len(keep) |-> keep[i].name]

\* get_field(name): the field, or None
NoField == [none |-> TRUE]
get_field(field_map, name) ==
    IF name \in DOMAIN field_map THEN field_map[name] ELSE NoField

(***************************************************************************)
(* Value formatting                                                        *)
(***************************************************************************)

\* opt.raw_line or f"{opt.key} - {opt.label}: {opt.description}"
OptionText(opt) ==
    IF opt.raw_line # "" THEN opt.raw_line
    ELSE opt.key \o " - " \o opt.label \o ": " \o opt.description

\* FirstKeyed with a key taken as found when it occurs anywhere in key_str
FirstKeyedWithin(field_def, key_str) ==
    LET hit == {i \in 1..Len(field_def.options) :
                   \E a \in 1..Len(key_str) :
                       /\ a + Len(field_def.options[i].key) - 1 <= Len(key_str)
                       /\ SubSeq(key_str, a, a + Len(field_def.options[i].key) - 1)
                              = field_def.options[i].key}
    IN  IF hit = {} THEN 0 ELSE CHOOSE i \in hit : \A j \in hit : i <= j

\* the first option of the field whose key is key_str, 0 when there is none
FirstKeyed(field_def, key_str) ==
    LET hit == {i \in 1..Len(field_def.options) :
                   field_def.options[i].key = key_str}
    IN  IF hit = {} THEN 0 ELSE CHOOSE i \in hit : \A j \in hit : i <= j

\* _format_select_value with the keys compared to the value itself, not to
\* str(value)
SelectValueUnconverted(field_def, value) ==
    IF value.t = "none" THEN "TBC"
    ELSE LET i == IF value.t = "str" THEN FirstKeyed(field_def, value.s) ELSE 0
         IN  IF i # 0 THEN OptionText(field_def.options[i])
             ELSE Str(value) \o " (unrecognised option)"

\* _format_select_value
_format_select_value(field_def, value) ==
    IF value.t = "none" THEN "TBC"
    ELSE LET i == FirstKeyed(field_def, Str(value))
         IN  IF i # 0 THEN OptionText(field_def.options[i])
             ELSE Str(value) \o " (unrecognised option)"

\* _format_multiselect_value with the scan of the values ended by the first
\* value that matches no option
MultiselectEndingAtUnknown(field_def, values) ==
    IF values = <<>> THEN "None selected"
    ELSE LET unknown == {n \in 1..Len(values) :
                            FirstKeyed(field_def, Str(values[n])) = 0}
             last == IF unknown = {} THEN Len(values)
                     ELSE CHOOSE n \in unknown : \A m \in unknown : n <= m
         IN  Join("\n",
                  [n \in 1..last |->
                      LET i == FirstKeyed(field_def, Str(values[n]))
                      IN  IF i # 0 THEN OptionText(field_def.options[i])
                          ELSE "- " \o Str(values[n])])

\* _format_multiselect_value, on a list of values
_format_multiselect_value(field_def, values) ==
    IF values = <<>> THEN "None selected"
    ELSE Join("\n",
              [n \in 1..Len(values) |->
                  LET i == FirstKeyed(field_def, Str(values[n]))
                  IN  IF i # 0 THEN OptionText(field_def.options[i])
                      ELSE "- " \o Str(values[n])])

\* LabelToField without the skip of calculate fields
LabelToFieldAnyKind(fs) ==
    LET decl(lbl) == {i \in 1..Len(fs) :
                         \E j \in 1..Len(fs[i].labels) : fs[i].labels[j] = lbl}
        lbls == UNION {{fs[i].labels[j] : j \in 1..Len(fs[i].labels)} :
                          i \in 1..Len(fs)}
    IN  [lbl \in lbls |->
            fs[CHOOSE i \in decl(lbl) : \A k \in decl(lbl) : k <= i]]

\* label_to_field of _format_calculate_value: the fields that declare a
\* label, calculate fields skipped, a later declaration replacing an earlier
LabelToField(fs) ==
    LET decl(lbl) == {i \in 1..Len(fs) :
                         /\ fs[i].field_type # "calculate"
                         /\ \E j \in 1..Len(fs[i].labels) : fs[i].labels[j] = lbl}
        lbls == UNION {{fs[i].labels[j] : j \in 1..Len(fs[i].labels)} :
                          i \in {k \in 1..Len(fs) : fs[k].field_type # "calculate"}}
    IN  [lbl \in lbls |->
            fs[CHOOSE i \in decl(lbl) : \A k \in decl(lbl) : k <= i]]

\* label_values[lbl] of _format_calculate_value: a str, or None
LabelValue(fs, values, lbl) ==
    IF lbl \in DOMAIN LabelToField(fs)
    THEN LET val == Get(values, LabelToField(fs)[lbl].name)
         IN  IF val.t # "none" THEN PyStr(Str(val)) ELSE PyNone
    ELSE PyNone

\* FirstMatching with the scan keeping the last hit instead of returning
LastMatching(field_def, target) ==
    LET hit == {i \in 1..Len(field_def.options) :
                   \E j \in 1..Len(field_def.options[i].matchers) :
                       field_def.options[i].matchers[j] = target}
    IN  IF hit = {} THEN 0 ELSE CHOOSE i \in hit : \A j \in hit : j <= i

\* the first option of the field whose matchers hold target, 0 when none does
FirstMatching(field_def, target) ==
    LET hit == {i \in 1..Len(field_def.options) :
                   \E j \in 1..Len(field_def.options[i].matchers) :
                       field_def.options[i].matchers[j] = target}
    IN  IF hit = {} THEN 0 ELSE CHOOSE i \in hit : \A j \in hit : i <= j

\* MatcherKey with the parts taken in reverse label order
MatcherKeyReversed(fs, field_def, values) ==
    Join("-", [n \in 1..Len(field_def.labels) |->
                  field_def.labels[Len(field_def.labels) + 1 - n]
                  \o LabelValue(fs, values,
                                field_def.labels[Len(field_def.labels) + 1 - n]).s])

\* the matcher key of _format_calculate_value, e.g. "L2-S3"; every label
\* value is a str here
MatcherKey(fs, field_def, values) ==
    Join("-", [n \in 1..Len(field_def.labels) |->
                  field_def.labels[n]
                  \o LabelValue(fs, values, field_def.labels[n]).s])

\* _format_calculate_value; fs is self.fields
_format_calculate_value(fs, field_def, values) ==
    IF Len(field_def.labels) < 2
    THEN "Cannot compute: insufficient labels defined"
    ELSE IF \E n \in 1..Len(field_def.labels) :
                LabelValue(fs, values, field_def.labels[n]).t = "none"
    THEN "TBC (awaiting scoring of dependencies)"
    ELSE LET target == MatcherKey(fs, field_def, values)
             i == FirstMatching(field_def, target)
         IN  IF i # 0 THEN OptionText(field_def.options[i])
             ELSE "No matching risk level for " \o target

\* UTILITY_LABEL_ICONS, with ASCII names for the glyphs: "(!)" the warning
\* sign, "(new)" the NEW button, "(no)" the no-entry sign
UTILITY_LABEL_ICONS == [i \in {1, 2, 3} |-> <<"(!)", "(new)", "(no)">>[i]]

\* UTILITY_LABEL_ICONS.get(v, "(?)"), "(?)" naming the question-mark glyph:
\* only an int is equal to one of the keys, and a list cannot be hashed
\* (TypeError)
IconFor(v) ==
    IF v.t = "list" THEN [raised |-> TRUE, text |-> ""]
    ELSE IF v.t = "int" /\ v.i \in DOMAIN UTILITY_LABEL_ICONS
    THEN [raised |-> FALSE, text |-> UTILITY_LABEL_ICONS[v.i]]
    ELSE [raised |-> FALSE, text |-> "(?)"]

\* what one iteration of the loop of generate() appends to lines, or that
\* it raised
Appended(ls) == [raised |-> FALSE, lines |-> ls]
Raised == [raised |-> TRUE, lines |-> <<>>]

\* generate(): the ICON branch
IconOutput(values) ==
    LET utility_values ==
            IF "General utility label" \in DOMAIN values
            THEN values["General utility label"] ELSE PyList(<<>>)
    IN  IF utility_values.t = "list" /\ utility_values.l # <<>>
        THEN LET icons == [n \in 1..Len(utility_values.l) |->
                              IconFor(utility_values.l[n])]
             IN  IF \E n \in 1..Len(icons) : icons[n].raised THEN Raised
                 ELSE Appended(<<"<!-- "
                                 \o Join(" ", [n \in 1..Len(icons) |-> icons[n].text])
                                 \o " -->", "">>)
        ELSE Appended(<<"<!-- (!) -->", "">>)

\* the backquote character of the code bullets, written as an apostrophe
BackQuote == "'"

\* ValueOutput with a calculate field showing the caller's entry when there
\* is one
ValueOutputTakingCalculate(fs, field_def, values) ==
    LET value == Get(values, field_def.name)
        ft == field_def.field_type
    IN  IF ft = "text"
        THEN <<(IF value.t # "none" THEN Str(value)
                ELSE field_def.placeholder_text), "">>
        ELSE IF ft = "select"
        THEN <<_format_select_value(field_def, value), "">>
        ELSE IF ft = "multiselect"
        THEN <<(IF value.t = "list"
                THEN _format_multiselect_value(field_def, value.l)
                ELSE IF value.t # "none"
                THEN _format_multiselect_value(field_def, <<value>>)
                ELSE "None selected"), "">>
        ELSE IF ft = "calculate"
        THEN <<(IF value.t # "none" THEN Str(value)
                ELSE _format_calculate_value(fs, field_def, values)), "">>
        ELSE IF ft = "code"
        THEN IF value.t = "list" /\ value.l # <<>>
             THEN [n \in 1..Len(value.l) |-> "- " \o BackQuote \o Str(value.l[n]) \o BackQuote]
                  \o <<"">>
             ELSE IF value.t = "str" /\ value.s # ""
             THEN <<"- " \o BackQuote \o value.s \o BackQuote, "">>
             ELSE <<"No code references yet.", "">>
        ELSE <<>>

\* ValueOutput with one default for every kind: a text field without a
\* value shows "TBC", not its placeholder
ValueOutputOneDefault(fs, field_def, values) ==
    LET value == Get(values, field_def.name)
        ft == field_def.field_type
    IN  IF ft = "text"
        THEN <<(IF value.t # "none" THEN Str(value)
                ELSE "TBC"), "">>
        ELSE IF ft = "select"
        THEN <<_format_select_value(field_def, value), "">>
        ELSE IF ft = "multiselect"
        THEN <<(IF value.t = "list"
                THEN _format_multiselect_value(field_def, value.l)
                ELSE IF value.t # "none"
                THEN _format_multiselect_value(field_def, <<value>>)
                ELSE "None selected"), "">>
        ELSE IF ft = "calculate"
        THEN <<_format_calculate_value(fs, field_def, values), "">>
        ELSE IF ft = "code"
        THEN IF value.t = "list" /\ value.l # <<>>
             THEN [n \in 1..Len(value.l) |-> "- " \o BackQuote \o Str(value.l[n]) \o BackQuote]
                  \o <<"">>
             ELSE IF value.t = "str" /\ value.s # ""
             THEN <<"- " \o BackQuote \o value.s \o BackQuote, "">>
             ELSE <<"No code references yet.", "">>
        ELSE <<>>

\* generate(): the value lines of a named field
ValueOutput(fs, field_def, values) ==
    LET value == Get(values, field_def.name)
        ft == field_def.field_type
    IN  IF ft = "text"
        THEN <<(IF value.t # "none" THEN Str(value)
                ELSE field_def.placeholder_text), "">>
        ELSE IF ft = "select"
        THEN <<_format_select_value(field_def, value), "">>
        ELSE IF ft = "multiselect"
        THEN <<(IF value.t = "list"
                THEN _format_multiselect_value(field_def, value.l)
                ELSE IF value.t # "none"
                THEN _format_multiselect_value(field_def, <<value>>)
                ELSE "None selected"), "">>
        ELSE IF ft = "calculate"
        THEN <<_format_calculate_value(fs, field_def, values), "">>
        ELSE IF ft = "code"
        THEN IF value.t = "list" /\ value.l # <<>>
             THEN [n \in 1..Len(value.l) |-> "- " \o BackQuote \o Str(value.l[n]) \o BackQuote]
                  \o <<"">>
             ELSE IF value.t = "str" /\ value.s # ""
             THEN <<"- " \o BackQuote \o value.s \o BackQuote, "">>
             ELSE <<"No code references yet.", "">>
        ELSE <<>>

\* generate(): the prose lines attached to a named field
TrailingOutput(field_def) ==
    IF field_def.prose_lines # <<>> THEN field_def.prose_lines \o <<"">>
    ELSE <<>>

\* FieldOutput with the prose lines of a named field emitted only when the
\* caller supplied a value for it
FieldOutputProseWhenSupplied(fs, field_def, values) ==
    IF field_def.field_type = "icon" THEN IconOutput(values)
    ELSE IF field_def.field_type = "separator" THEN Appended(<<"---", "">>)
    ELSE IF field_def.field_type = "prose"
    THEN Appended(field_def.prose_lines \o <<"">>)
    ELSE Appended(<<"### " \o field_def.name, "">>
                  \o ValueOutput(fs, field_def, values)
                  \o (IF Get(values, field_def.name).t # "none"
                      THEN TrailingOutput(field_def) ELSE <<>>))

\* generate(): one iteration of the loop over self.fields
FieldOutput(fs, field_def, values) ==
    IF field_def.field_type = "icon" THEN IconOutput(values)
    ELSE IF field_def.field_type = "separator" THEN Appended(<<"---", "">>)
    ELSE IF field_def.field_type = "prose"
    THEN Appended(field_def.prose_lines \o <<"">>)
    ELSE Appended(<<"### " \o field_def.name, "">>
                  \o ValueOutput(fs, field_def, values)
                  \o TrailingOutput(field_def))

\* generate(): the lines before the loop
HeaderOutput(hazard_id) ==
    IF hazard_id.t = "str" /\ hazard_id.s # ""
    THEN <<"# " \o hazard_id.s, "">> ELSE <<>>

\* generate(): lines after the first n iterations of the loop, or that one
\* of them raised
RECURSIVE LinesAfter(_, _, _, _)
LinesAfter(fs, values, hazard_id, n) ==
    IF n = 0 THEN Appended(HeaderOutput(hazard_id))
    ELSE Only({IF before.raised \/ out.raised THEN Raised
               ELSE Appended(before.lines \o out.lines) :
                  before \in {LinesAfter(fs, values, hazard_id, n - 1)},
                  out \in {FieldOutput(fs, fs[n], values)}})

\* generate() as one call: the text it writes to output_path, or that it
\* raised
generate(fs, values, hazard_id) ==
    Only({IF r.raised THEN [raised |-> TRUE]
          ELSE [raised |-> FALSE, text |-> Join("\n", r.lines)] :
             r \in {LinesAfter(fs, values, hazard_id, Len(fs))}})

(***************************************************************************)
(* Inputs: template files, hazard-type files, values                       *)
(***************************************************************************)

\* two scored fields and the risk computed from them; the cell L1-S2 is
\* claimed by both bands
TplRisk ==
    <<"### Likelihood", "[select] [L]", "1 - Very low: Negligible", "2 - Low",
      "TBC", "",
      "### Severity", "[select] [S]", "1 - Minor", "2 - Major", "",
      "### Risk", "[calculate] [L] [S]", "1 - Low [L1-S1, L1-S2]",
      "2 - High [L2-S2, L1-S2]", "See the risk matrix">>

\* an icon marker, the utility label it reads, a separator with prose and a
\* text field
TplIcon ==
    <<"<!-- [icon] -->", "### General utility label", "[multiselect]",
      "1 - Hazard", "2 - New hazard for triage", "---", "Notes for authors",
      "", "### Description", "Describe the hazard", "in plain words">>

\* calculate fields with one label, and with a label that only a calculate
\* field carries
TplShort ==
    <<"### Score", "[select] [L]", "1 - One", "2 - Two", "1 - One again",
      "### Short", "[calculate] [L]", "1 - Low [L1]",
      "### Ghost", "[calculate] [L] [Q]", "1 - Low [L1-Q1]">>

\* a label declared twice, the second time by a multiselect field; notes
\* after and between the option lines
TplTwice ==
    <<"### First", "[select] [L]", "1 - One", "pick one",
      "### Second", "[multiselect] [L] [S]", "1 - Uno", "see above", "2 - Dos",
      "### Both", "[calculate] [L] [S]", "9 - Both [L1-S1]">>

\* options taken from the hazard types, a header whose name starts with two
\* underscores, a code field with a note
TplTypes ==
    <<"Hazard log", "### Hazard type", "[multiselect]", "[hazard-types]",
      "0 - replaced", "### __internal", "hidden notes", "### Code", "[code]",
      "paths from the repository root">>

\* a field collecting options closed by a separator, with an option line,
\* a bare TBC, a type marker and a note before the next header
TplClosed ==
    <<"### F", "[select] [L]", "1 - A", "---", "2 - B: b [L1]", "TBC",
      "[select] [L]", "note", "### G", "after">>

TypesSome == <<"## Identity", "- WrongPatient", "", " - Delay ", "-none">>
TypesNone == <<"## Nothing yet">>

\* the (template file, hazard types file) pairs a generator is built from
Scenarios ==
    {<<TplRisk, TypesSome>>, <<TplIcon, TypesSome>>, <<TplShort, TypesSome>>,
     <<TplTwice, TypesSome>>, <<TplTypes, TypesSome>>, <<TplTypes, TypesNone>>}

MaxInt == 1
MaxListLen == 1
MaxKeys == 3
NumThreads == 2
NumHandlers == 2
MaxRequests == 3
MaxTime == 3
AccessTtl == 1
RefreshTtl == 2
MaxFiles == 4

StrPool == {"1", "2", "02", "TBC"}
ElemPool == {PyStr("1"), PyInt(2)}

RECURSIVE SeqsUpTo(_, _)
SeqsUpTo(S, n) ==
    IF n = 0 THEN {<<>>}
    ELSE SeqsUpTo(S, n - 1)
         \cup {Append(q, x) : q \in {r \in SeqsUpTo(S, n - 1) : Len(r) = n - 1},
                              x \in S}

\* a list that holds a list
Nested == PyList(<<PyList(<<>>)>>)

\* a list of two entries: a string that is no option key, then a key as an int
Pair == PyList(<<PyStr("02"), PyInt(2)>>)

\* the Python values an entry of values may hold
Val ==
    {PyNone} \cup {PyStr(x) : x \in StrPool} \cup {PyInt(i) : i \in 1..MaxInt}
    \cup {PyList(l) : l \in SeqsUpTo(ElemPool, MaxListLen)} \cup {Nested, Pair}

\* the names of the header-declared fields, in template order
HeaderNames(fs) ==
    LET named == SelectSeq(fs, LAMBDA f :
                     f.field_type \notin {"icon", "separator", "prose"})
    IN  [i \in 1..Len(named) |-> named[i].name]

\* the field names a caller supplies values for: the first MaxKeys of them
ValueKeys(fs) ==
    {HeaderNames(fs)[i] : i \in {j \in 1..Len(HeaderNames(fs)) : j <= MaxKeys}}

\* every values mapping over those keys, any of them absent, and the same
\* mappings with an entry under a key that is no field name
ValuesOver(keys) ==
    LET known == UNION {[K -> Val] : K \in SUBSET keys}
    IN  known \cup {[k \in DOMAIN v \cup {"Extra"} |->
                       IF k = "Extra" THEN PyStr("1") ELSE v[k]] : v \in known}

HazardIds == {PyNone, PyStr("HAZ-001")}

Threads == 1..NumThreads

\* one output path per thread
PathOf(t) == "hazards/HAZ-" \o IntStr(t) \o ".md"
Paths == {PathOf(t) : t \in Threads}

(***************************************************************************)
(* State                                                                   *)
(***************************************************************************)

VARIABLES
    template_file,      \* the lines of the file at template_path
    hazard_types_file,  \* the lines of the file at hazard_types_path
    hazard_types,       \* self.hazard_types
    fields,             \* self.fields
    field_map,          \* self._field_map
    files,              \* the text of each output file, NoFile before a write
    pc,                 \* where each thread is in its call of generate()
    frame,              \* the arguments and locals of each thread's call
    ret,                \* what each thread's last call returned
    parse,              \* the locals of parse_template while __init__ runs it
    SUBSCRIPTIONS,      \* push.SUBSCRIPTIONS
    handler,            \* the request each handler of the backend is serving
    requested,          \* history: the subscriptions of the subscribe requests so far
    users,              \* the users table of the database, by username
    now,                \* the clock of the backend
    issued,             \* history: the tokens the backend has signed
    rotated,            \* history: the refresh tokens a refresh succeeded with
    exchange,           \* the last response of the auth API, and to which operation
    batching            \* the locals of the batching loop of prepare_stage_2()

vars == <<template_file, hazard_types_file, hazard_types, fields, field_map,
          files, pc, frame, ret, parse, SUBSCRIPTIONS, handler, requested,
          users, now, issued, rotated, exchange, batching>>

\* the state of the auth API
auth == <<users, now, issued, rotated, exchange>>

\* the state of the backend
backend == <<SUBSCRIPTIONS, handler, requested, auth>>

generator == <<template_file, hazard_types_file, hazard_types, fields, field_map>>

NoFile == [exists |-> FALSE]
FileText(text) == [exists |-> TRUE, text |-> text]

NoFrame == [output_path |-> "", values |-> <<>>, hazard_id |-> PyNone,
            lines |-> <<>>, i |-> 0]

NoRet == [kind |-> "none"]

\* parse_template is not running
NoParse == [running |-> FALSE]

\* the handlers of the backend
Handlers == 1..NumHandlers

\* a handler that serves no request
NoRequest == [pc |-> "idle"]

\* prepare_stage_2() is not running
NoBatching == [pc |-> "idle"]

\* no request made to the auth API yet
NoExchange == [op |-> "none"]

\* the auth API before any request, on an empty users table
AuthStart ==
    /\ users = <<>>
    /\ now = 0
    /\ issued = {}
    /\ rotated = {}
    /\ exchange = NoExchange

\* the backend after import: push.py line 25
BackendStart ==
    /\ SUBSCRIPTIONS = <<>>
    /\ handler = [h \in Handlers |-> NoRequest]
    /\ requested = <<>>
    /\ AuthStart

\* HazardLogGenerator.__init__ on one of the scenarios; no call made yet
InitOn(scenarios) ==
    \E sc \in scenarios :
        \E types \in {parse_hazard_types(sc[2])} :
            \E fs \in {InjectHazardTypes(parse_template(sc[1]), types)} :
                /\ template_file = sc[1]
                /\ hazard_types_file = sc[2]
                /\ hazard_types = types
                /\ fields = fs
                /\ field_map = FieldMap(fs)
                /\ files = [p \in Paths |-> NoFile]
                /\ pc = [t \in Threads |-> "idle"]
                /\ frame = [t \in Threads |-> NoFrame]
                /\ ret = [t \in Threads |-> NoRet]
                /\ parse = NoParse
                /\ BackendStart
                /\ batching = NoBatching

Init == InitOn(Scenarios)

(***************************************************************************)
(* Operations                                                              *)
(***************************************************************************)

\* generate(): entry, up to the loop over self.fields; the caller's
\* arguments are drawn from calls
GenerateBegin(t, calls) ==
    /\ pc[t] = "idle"
    /\ \E c \in calls :
           frame' = [frame EXCEPT ![t] =
                        [output_path |-> c.output_path, values |-> c.values,
                         hazard_id |-> c.hazard_id,
                         lines |-> HeaderOutput(c.hazard_id), i |-> 1]]
    /\ pc' = [pc EXCEPT ![t] = "loop"]
    /\ ret' = [ret EXCEPT ![t] = NoRet]
    /\ UNCHANGED <<generator, files>>
    /\ UNCHANGED <<parse, backend, batching>>

\* GenerateField with the prose of the rendered field consumed: it is
\* removed from the field once it has been copied to the document
GenerateFieldConsuming(t) ==
    /\ pc[t] = "loop"
    /\ frame[t].i <= Len(fields)
    /\ LET out == FieldOutput(fields, fields[frame[t].i], frame[t].values)
       IN  IF out.raised
           THEN /\ pc' = [pc EXCEPT ![t] = "raised"]
                /\ frame' = frame
           ELSE /\ frame' = [frame EXCEPT ![t].lines = @ \o out.lines,
                                          ![t].i = @ + 1]
                /\ pc' = pc
    /\ fields' = [fields EXCEPT ![frame[t].i].prose_lines = <<>>]
    /\ UNCHANGED <<template_file, hazard_types_file, hazard_types, field_map,
                   files, ret>>
    /\ UNCHANGED <<parse, backend, batching>>

\* GenerateField with lines kept on the generator: every call in its loop
\* receives the lines any of them appends
GenerateFieldSharedLines(t) ==
    /\ pc[t] = "loop"
    /\ frame[t].i <= Len(fields)
    /\ LET out == FieldOutput(fields, fields[frame[t].i], frame[t].values)
       IN  IF out.raised
           THEN /\ pc' = [pc EXCEPT ![t] = "raised"]
                /\ frame' = frame
           ELSE /\ frame' = [u \in Threads |->
                                IF u = t
                                THEN [frame[u] EXCEPT !.lines = @ \o out.lines,
                                                      !.i = @ + 1]
                                ELSE IF pc[u] = "loop"
                                THEN [frame[u] EXCEPT !.lines = @ \o out.lines]
                                ELSE frame[u]]
                /\ pc' = pc
    /\ UNCHANGED <<generator, files, ret>>
    /\ UNCHANGED <<parse, backend, batching>>

\* generate(): one iteration of the loop over self.fields
GenerateField(t) ==
    /\ pc[t] = "loop"
    /\ frame[t].i <= Len(fields)
    /\ LET out == FieldOutput(fields, fields[frame[t].i], frame[t].values)
       IN  IF out.raised
           THEN /\ pc' = [pc EXCEPT ![t] = "raised"]
                /\ frame' = frame
           ELSE /\ frame' = [frame EXCEPT ![t].lines = @ \o out.lines,
                                          ![t].i = @ + 1]
                /\ pc' = pc
    /\ UNCHANGED <<generator, files, ret>>
    /\ UNCHANGED <<parse, backend, batching>>

\* generate(): after the loop, join the lines, write the file, return the path
GenerateWrite(t) ==
    /\ pc[t] = "loop"
    /\ frame[t].i > Len(fields)
    /\ files' = [files EXCEPT ![frame[t].output_path] =
                    FileText(Join("\n", frame[t].lines))]
    /\ ret' = [ret EXCEPT ![t] = [kind |-> "path", path |-> frame[t].output_path]]
    /\ pc' = [pc EXCEPT ![t] = "done"]
    /\ UNCHANGED <<generator, frame>>
    /\ UNCHANGED <<parse, backend, batching>>

\* the field_names property, read by a thread that is not inside generate()
FieldNames(t) ==
    /\ pc[t] = "idle"
    /\ ret' = [ret EXCEPT ![t] = [kind |-> "names", names |-> field_names(fields)]]
    /\ UNCHANGED <<generator, files, pc, frame>>
    /\ UNCHANGED <<parse, backend, batching>>

\* get_field(name), called by a thread that is not inside generate()
GetField(t, name) ==
    /\ pc[t] = "idle"
    /\ ret' = [ret EXCEPT ![t] = [kind |-> "field", name |-> name,
                                  field |-> get_field(field_map, name)]]
    /\ UNCHANGED <<generator, files, pc, frame>>
    /\ UNCHANGED <<parse, backend, batching>>

\* the names get_field is asked for
LookupNames == ValueKeys(fields) \cup {"__icon__", "Extra"}

\* the arguments of the call of thread t: its own path, any values mapping
\* over the keys, any hazard id
AnyCall(t) ==
    [output_path : {PathOf(t)}, values : ValuesOver(ValueKeys(fields)),
     hazard_id : HazardIds]

\* one caller, one call of generate()
Next ==
    \E t \in {1} :
        \/ GenerateBegin(t, AnyCall(t))
        \/ GenerateField(t)
        \/ GenerateWrite(t)
        \/ FieldNames(t)
        \/ \E n \in LookupNames : GetField(t, n)

Spec == Init /\ [][Next]_vars

\* the scenarios and the arguments of the concurrent callers
ConcScenarios == {<<TplRisk, TypesSome>>, <<TplIcon, TypesSome>>}

InitConc == InitOn(ConcScenarios)

\* (values, hazard_id) of the concurrent calls: nothing supplied, every key
\* supplied as "1", every key supplied as [2]
ConcInputs ==
    {<<(<<>>), PyNone>>,
     <<[k \in ValueKeys(fields) |-> PyStr("1")], PyStr("HAZ-001")>>,
     <<[k \in ValueKeys(fields) |-> PyList(<<PyInt(2)>>)], PyNone>>}

ConcCall ==
    {[output_path |-> p, values |-> c[1], hazard_id |-> c[2]] :
        p \in Paths, c \in ConcInputs}

\* several callers on one generator, their steps interleaved
NextConc ==
    \E t \in Threads :
        \/ GenerateBegin(t, ConcCall)
        \/ GenerateField(t)
        \/ GenerateWrite(t)
        \/ FieldNames(t)
        \/ \E n \in {fields[Len(fields)].name} : GetField(t, n)

SpecConc == InitConc /\ [][NextConc]_vars

(***************************************************************************)
(* HazardLogGenerator.__init__, step by step                               *)
(***************************************************************************)

MaxLines == 3

\* the lines the short templates are made of
LinePool ==
    {"### F", " ### G ", "[select] [L]", "1 - A", "2 - B: b [L1]", "TBC",
     "note", "", "---", "<!-- [icon] -->", "[hazard-types]"}

\* the template files parsed line by line: the scenarios' templates and
\* every template of at most MaxLines lines of the pool
ParseTemplates ==
    {TplRisk, TplIcon, TplShort, TplTwice, TplTypes, TplClosed}
    \cup SeqsUpTo(LinePool, MaxLines)

\* __init__ up to the call of parse_template: the hazard types are parsed
\* and the loop over the template lines is about to start
InitParse ==
    \E lines \in ParseTemplates, types \in {TypesSome, TypesNone} :
        /\ template_file = lines
        /\ hazard_types_file = types
        /\ hazard_types = parse_hazard_types(types)
        /\ fields = <<>>
        /\ field_map = <<>>
        /\ files = [p \in Paths |-> NoFile]
        /\ pc = [t \in Threads |-> "idle"]
        /\ frame = [t \in Threads |-> NoFrame]
        /\ ret = [t \in Threads |-> NoRet]
        /\ parse = [running |-> TRUE, i |-> 0, st |-> ScanStart]
        /\ BackendStart
        /\ batching = NoBatching

\* parse_template: one iteration of the while loop (i counts the lines read)
ParseLine ==
    /\ parse.running
    /\ parse.i < Len(template_file)
    /\ \E stripped \in {Strip(template_file[parse.i + 1])} :
           parse' = [parse EXCEPT !.i = @ + 1,
                                  !.st = ScanLine(parse.st, stripped)]
    /\ UNCHANGED <<generator, files, pc, frame, ret, backend, batching>>

\* parse_template returns; __init__ injects the hazard types and builds the
\* field map
Construct ==
    /\ parse.running
    /\ parse.i = Len(template_file)
    /\ fields' = InjectHazardTypes(parse.st.fields, hazard_types)
    /\ field_map' = FieldMap(fields')
    /\ parse' = NoParse
    /\ UNCHANGED <<template_file, hazard_types_file, hazard_types, files, pc,
                   frame, ret, backend, batching>>

NextParse == ParseLine \/ Construct

SpecParse == InitParse /\ [][NextParse]_vars

(***************************************************************************)
(* run_pipeline.py: the batching loop of prepare_stage_2()                 *)
(***************************************************************************)

BATCH_MAX_CHARS == 80000

\* a text of n characters: the loop reads nothing of a text but its length
Text(n) == [chars |-> n]

\* len(s) of a text
len(s) == s.chars

\* format_file_block(rel_path, contents): the path between "### " and the
\* code fence (5 and 7 characters with the backquotes and newlines), the
\* contents, and the closing fence (5 characters)
format_file_block(rel_path, contents) ==
    Text(5 + Len(rel_path) + 7 + len(contents) + 5)

\* the (filepath, contents) pairs read for the tiers: empty files, files
\* whose blocks are half the limit, one character more than half, the limit
\* and more than the limit
FilePool ==
    {<<"a.py", Text(0)>>, <<"b.py", Text(39979)>>, <<"c.py", Text(39980)>>,
     <<"src/d.py", Text(79975)>>, <<"e.py", Text(90000)>>}

\* prepare_stage_2() with analysis_files collected and the loop about to
\* start
BatchingStart(analysis_files) ==
    [pc |-> "loop", analysis_files |-> analysis_files, i |-> 1,
     batches |-> <<>>, current_batch |-> <<>>, current_size |-> 0]

\* BatchFile closing the current batch whether or not it holds a file
BatchFileClosingEmpty ==
    /\ batching.pc = "loop"
    /\ batching.i <= Len(batching.analysis_files)
    /\ \E file \in {batching.analysis_files[batching.i]} :
       \E block_size \in {len(format_file_block(file[1], file[2]))} :
       \E full \in {batching.current_size + block_size > BATCH_MAX_CHARS} :
           batching' =
               [batching EXCEPT
                   !.batches = IF full THEN Append(@, batching.current_batch)
                               ELSE @,
                   !.current_batch = IF full THEN <<file>>
                                     ELSE Append(@, file),
                   !.current_size = IF full THEN block_size
                                    ELSE @ + block_size,
                   !.i = @ + 1]
    /\ UNCHANGED <<generator, files, pc, frame, ret, parse, backend>>

\* one iteration of the loop over analysis_files
BatchFile ==
    /\ batching.pc = "loop"
    /\ batching.i <= Len(batching.analysis_files)
    /\ \E file \in {batching.analysis_files[batching.i]} :
       \E block_size \in {len(format_file_block(file[1], file[2]))} :
       \E full \in {/\ batching.current_size + block_size > BATCH_MAX_CHARS
                    /\ batching.current_batch # <<>>} :
           batching' =
               [batching EXCEPT
                   !.batches = IF full THEN Append(@, batching.current_batch)
                               ELSE @,
                   !.current_batch = IF full THEN <<file>>
                                     ELSE Append(@, file),
                   !.current_size = IF full THEN block_size
                                    ELSE @ + block_size,
                   !.i = @ + 1]
    /\ UNCHANGED <<generator, files, pc, frame, ret, parse, backend>>

\* after the loop: if current_batch: batches.append(current_batch)
BatchRest ==
    /\ batching.pc = "loop"
    /\ batching.i > Len(batching.analysis_files)
    /\ batching' =
           [batching EXCEPT
               !.batches = IF batching.current_batch # <<>>
                           THEN Append(@, batching.current_batch) ELSE @,
               !.pc = "done"]
    /\ UNCHANGED <<generator, files, pc, frame, ret, parse, backend>>

\* prepare_stage_2() on any list of at most MaxFiles files of the pool
InitBatch ==
    /\ template_file = <<>>
    /\ hazard_types_file = <<>>
    /\ hazard_types = <<>>
    /\ fields = <<>>
    /\ field_map = <<>>
    /\ files = [p \in Paths |-> NoFile]
    /\ pc = [t \in Threads |-> "idle"]
    /\ frame = [t \in Threads |-> NoFrame]
    /\ ret = [t \in Threads |-> NoRet]
    /\ parse = NoParse
    /\ BackendStart
    /\ \E analysis_files \in SeqsUpTo(FilePool, MaxFiles) :
           batching = BatchingStart(analysis_files)

NextBatch == BatchFile \/ BatchRest

SpecBatch == InitBatch /\ [][NextBatch]_vars

(***************************************************************************)
(* The backend: push subscriptions                                         *)
(***************************************************************************)

\* the request bodies that pass validation as a PushSubscription
Endpoints ==
    {"https://push.example.com/1", "https://push.example.com/2",
     "https://push.example.com/3"}
KeyPool ==
    {[cls |-> "PushKeys", p256dh |-> "p256dh_a", auth |-> "auth_a"],
     [cls |-> "PushKeys", p256dh |-> "p256dh_b", auth |-> "auth_b"]}
SubPool ==
    [cls : {"PushSubscription"}, endpoint : Endpoints,
     expirationTime : {PyNone}, keys : KeyPool]

\* sub.model_dump(): the model and the model nested in it as dicts
model_dump(sub) ==
    [endpoint |-> sub.endpoint, expirationTime |-> sub.expirationTime,
     keys |-> [p256dh |-> sub.keys.p256dh, auth |-> sub.keys.auth]]

\* AnyStored with a stored subscription compared as a whole, keys included
AnyStoredEqual(subs, sub) ==
    \E n \in 1..Len(subs) : subs[n] = model_dump(sub)

\* any(s["endpoint"] == sub.endpoint for s in SUBSCRIPTIONS)
AnyStored(subs, sub) ==
    \E n \in 1..Len(subs) : subs[n].endpoint = sub.endpoint

\* no handler is serving a request
Quiet == \A h \in Handlers : handler[h].pc \in {"idle", "done"}

\* POST /push/subscribe: the validated body reaches subscribe()
SubscribeBegin(h, sub) ==
    /\ handler[h].pc \in {"idle", "done"}
    /\ Len(requested) < MaxRequests
    /\ handler' = [handler EXCEPT ![h] = [pc |-> "check", sub |-> sub]]
    /\ requested' = Append(requested, sub)
    /\ UNCHANGED <<SUBSCRIPTIONS, generator, files, pc, frame, ret, parse, auth, batching>>

\* subscribe(): the condition of the if
SubscribeCheck(h) ==
    /\ handler[h].pc = "check"
    /\ handler' = [handler EXCEPT
                      ![h].pc = IF AnyStored(SUBSCRIPTIONS, handler[h].sub)
                                THEN "return" ELSE "append"]
    /\ UNCHANGED <<SUBSCRIPTIONS, requested, generator, files, pc, frame, ret,
                   parse, auth, batching>>

\* subscribe(): SUBSCRIPTIONS.append(sub.model_dump())
SubscribeAppend(h) ==
    /\ handler[h].pc = "append"
    /\ SUBSCRIPTIONS' = Append(SUBSCRIPTIONS, model_dump(handler[h].sub))
    /\ handler' = [handler EXCEPT ![h].pc = "return"]
    /\ UNCHANGED <<requested, generator, files, pc, frame, ret, parse,
                   auth, batching>>

\* subscribe(): the return statement
SubscribeReturn(h) ==
    /\ handler[h].pc = "return"
    /\ handler' = [handler EXCEPT
                      ![h] = [pc |-> "done", sub |-> handler[h].sub,
                              response |-> [ok |-> TRUE,
                                            count |-> Len(SUBSCRIPTIONS)]]]
    /\ UNCHANGED <<SUBSCRIPTIONS, requested, generator, files, pc, frame, ret,
                   parse, auth, batching>>

\* the backend after import; no generator is built in this process
InitSubscribe ==
    /\ template_file = <<>>
    /\ hazard_types_file = <<>>
    /\ hazard_types = <<>>
    /\ fields = <<>>
    /\ field_map = <<>>
    /\ files = [p \in Paths |-> NoFile]
    /\ pc = [t \in Threads |-> "idle"]
    /\ frame = [t \in Threads |-> NoFrame]
    /\ ret = [t \in Threads |-> NoRet]
    /\ parse = NoParse
    /\ BackendStart
    /\ batching = NoBatching

\* subscribe requests served one after the other, by any handler
NextSubscribe ==
    \E h \in Handlers :
        \/ \E sub \in SubPool : Quiet /\ SubscribeBegin(h, sub)
        \/ SubscribeCheck(h)
        \/ SubscribeAppend(h)
        \/ SubscribeReturn(h)

SpecSubscribe == InitSubscribe /\ [][NextSubscribe]_vars

(***************************************************************************)
(* The backend: sending to the subscriptions                               *)
(***************************************************************************)

\* how a call of webpush() ends: it returns, it raises WebPushException,
\* or it raises anything else (the except clause names WebPushException
\* only)
Outcomes == {"returned", "WebPushException", "other"}

\* list.remove(x): the list without its first entry equal to x
Removed(subs, x) ==
    LET n == CHOOSE k \in 1..Len(subs) :
                 subs[k] = x /\ \A m \in 1..(k - 1) : subs[m] # x
    IN  SubSeq(subs, 1, n - 1) \o SubSeq(subs, n + 1, Len(subs))

\* x in list
Holds(subs, x) == \E k \in 1..Len(subs) : subs[k] = x

\* the handler's record when send_test() ends; start (the list when the
\* call began) and log (the deliveries attempted, with how each ended) are
\* history
Sent(status, body, start, log) ==
    [pc |-> "done", op |-> "send_test", status |-> status, body |-> body,
     start |-> start, log |-> log]

\* POST /api/push/send-test: send_test() is entered and tests the list; an
\* empty list raises HTTPException(400)
SendEnter(h) ==
    /\ handler[h].pc \in {"idle", "done"}
    /\ handler' = [handler EXCEPT
                      ![h] = IF SUBSCRIPTIONS = <<>>
                             THEN Sent(400, "No subscribers yet", <<>>, <<>>)
                             ELSE [pc |-> "snapshot", start |-> SUBSCRIPTIONS]]
    /\ UNCHANGED <<SUBSCRIPTIONS, generator, files, pc, frame, ret, parse,
                   auth, batching>>

\* a send-test request where only the subscribe requests are counted
SendBegin(h) == SendEnter(h) /\ UNCHANGED requested

\* a send-test request counted among the requests made
SendTest == [cls |-> "SendTest"]
SendRequest(h) ==
    /\ Len(requested) < MaxRequests
    /\ SendEnter(h)
    /\ requested' = Append(requested, SendTest)

\* send_test(): removed = [], sent = 0, and the copy SUBSCRIPTIONS[:] the
\* loop runs over
SendSnapshot(h) ==
    /\ handler[h].pc = "snapshot"
    /\ handler' = [handler EXCEPT
                      ![h] = [pc |-> "deliver", start |-> handler[h].start,
                              copy |-> SUBSCRIPTIONS, i |-> 1,
                              removed |-> <<>>, sent |-> 0, log |-> <<>>]]
    /\ UNCHANGED <<SUBSCRIPTIONS, requested, generator, files, pc, frame, ret,
                   parse, auth, batching>>

\* send_test(): the call of webpush() for the next subscription of the copy
SendDeliver(h, outcome) ==
    /\ handler[h].pc = "deliver"
    /\ handler[h].i <= Len(handler[h].copy)
    /\ LET sub == handler[h].copy[handler[h].i]
           log == Append(handler[h].log, [sub |-> sub, outcome |-> outcome])
       IN  handler' = [handler EXCEPT
               ![h] = IF outcome = "returned"
                      THEN [handler[h] EXCEPT !.sent = @ + 1, !.i = @ + 1,
                                              !.log = log]
                      ELSE IF outcome = "WebPushException"
                      THEN [handler[h] EXCEPT
                               !.removed = Append(@, sub.endpoint),
                               !.pc = "remove", !.log = log]
                      ELSE Sent(500, "Internal Server Error",
                                handler[h].start, log)]
    /\ UNCHANGED <<SUBSCRIPTIONS, requested, generator, files, pc, frame, ret,
                   parse, auth, batching>>

\* send_test(): SUBSCRIPTIONS.remove(sub), which raises ValueError when no
\* entry equals sub
SendRemove(h) ==
    /\ handler[h].pc = "remove"
    /\ LET sub == handler[h].copy[handler[h].i]
       IN  IF Holds(SUBSCRIPTIONS, sub)
           THEN /\ SUBSCRIPTIONS' = Removed(SUBSCRIPTIONS, sub)
                /\ handler' = [handler EXCEPT ![h].pc = "deliver",
                                              ![h].i = @ + 1]
           ELSE /\ SUBSCRIPTIONS' = SUBSCRIPTIONS
                /\ handler' = [handler EXCEPT
                                  ![h] = Sent(500, "Internal Server Error",
                                              handler[h].start, handler[h].log)]
    /\ UNCHANGED <<requested, generator, files, pc, frame, ret, parse,
                   auth, batching>>

\* send_test(): the return statement after the loop
SendReturn(h) ==
    /\ handler[h].pc = "deliver"
    /\ handler[h].i > Len(handler[h].copy)
    /\ handler' = [handler EXCEPT
                      ![h] = Sent(200, [sent |-> TRUE,
                                        removed |-> handler[h].removed],
                                  handler[h].start, handler[h].log)]
    /\ UNCHANGED <<SUBSCRIPTIONS, requested, generator, files, pc, frame, ret,
                   parse, auth, batching>>

\* subscribe() as one call: the list it leaves
Subscribed(subs, sub) ==
    IF AnyStored(subs, sub) THEN subs ELSE Append(subs, model_dump(sub))

\* the list after the first n of a sequence of subscribe requests
RECURSIVE AfterRequests(_, _)
AfterRequests(reqs, n) ==
    IF n = 0 THEN <<>>
    ELSE Subscribed(AfterRequests(reqs, n - 1), reqs[n])

\* the backend after some subscribe requests were served
InitSend ==
    /\ template_file = <<>>
    /\ hazard_types_file = <<>>
    /\ hazard_types = <<>>
    /\ fields = <<>>
    /\ field_map = <<>>
    /\ files = [p \in Paths |-> NoFile]
    /\ pc = [t \in Threads |-> "idle"]
    /\ frame = [t \in Threads |-> NoFrame]
    /\ ret = [t \in Threads |-> NoRet]
    /\ parse = NoParse
    /\ handler = [h \in Handlers |-> NoRequest]
    /\ AuthStart
    /\ batching = NoBatching
    /\ \E reqs \in SeqsUpTo(SubPool, MaxRequests) :
           /\ requested = reqs
           /\ SUBSCRIPTIONS = AfterRequests(reqs, Len(reqs))

\* send-test requests served one after the other, by any handler
NextSend ==
    \E h \in Handlers :
        \/ Quiet /\ SendBegin(h)
        \/ SendSnapshot(h)
        \/ \E outcome \in Outcomes : SendDeliver(h, outcome)
        \/ SendRemove(h)
        \/ SendReturn(h)

SpecSend == InitSend /\ [][NextSend]_vars

(***************************************************************************)
(* The backend: requests served concurrently                               *)
(***************************************************************************)

\* subscribe() and send_test() are plain def endpoints: each request runs
\* on a thread of the server's pool, so the steps of the handlers
\* interleave on the module-level list; at most MaxRequests requests are
\* made
NextBackend ==
    \E h \in Handlers :
        \/ \E sub \in SubPool : SubscribeBegin(h, sub)
        \/ SubscribeCheck(h)
        \/ SubscribeAppend(h)
        \/ SubscribeReturn(h)
        \/ SendRequest(h)
        \/ SendSnapshot(h)
        \/ \E outcome \in Outcomes : SendDeliver(h, outcome)
        \/ SendRemove(h)
        \/ SendReturn(h)

SpecBackend == InitSubscribe /\ [][NextBackend]_vars

(***************************************************************************)
(* The backend: authentication                                             *)
(*                                                                         *)
(* The clock counts ticks; AccessTtl and RefreshTtl are the lifetimes      *)
(* settings.ACCESS_TTL_MIN and settings.REFRESH_TTL_DAYS in ticks. A       *)
(* signature, a password hash and a one-time code are taken as ideal: they *)
(* match only what they were made from.                                    *)
(***************************************************************************)

\* hash_password(p) and verify_password(p, h)
hash_password(p) == [argon2 |-> p]
verify_password(p, h) == h = hash_password(p)

\* the values pyotp.random_base32() may return
Secrets == {"JBSWY3DPEHPK3PXP", "KRSXG5CTMVRXEZLU"}

\* the code pyotp.TOTP(secret) shows in the time step of tick t
TotpAt(secret, t) == [t |-> "str", totp |-> secret, step |-> t]

\* verify_totp_code(secret, code), at tick t
verify_totp_code(secret, code, t) == code = TotpAt(secret, t)

\* jwt.encode(payload, JWT_SECRET)
Signed(payload) == [payload |-> payload, sig |-> "JWT_SECRET"]

\* create_access_token(sub, roles), at tick t
create_access_token(sub, roles, t) ==
    Signed([sub |-> sub, roles |-> roles, exp |-> t + AccessTtl])

\* create_refresh_token(sub), at tick t
create_refresh_token(sub, t) ==
    Signed([sub |-> sub, type |-> "refresh", exp |-> t + RefreshTtl])

\* decode_token(tok), at tick t: the payload, or that it raised (bad
\* signature, or exp in the past)
decode_token(tok, t) ==
    IF tok.sig = "JWT_SECRET" /\ tok.payload.exp >= t
    THEN [raised |-> FALSE, payload |-> tok.payload]
    ELSE [raised |-> TRUE]

\* make_csrf(sub) and verify_csrf(token, sub)
make_csrf(sub) == [payload |-> [sub |-> sub], sig |-> "csrf"]
verify_csrf(token, sub) == token.sig = "csrf" /\ token.payload.sub = sub

\* a cookie or header the request does not carry
Absent == [absent |-> TRUE]

\* a row of the users table as register() creates it
User(username, password, is_active) ==
    [username |-> username, password_hash |-> hash_password(password),
     totp_secret |-> PyNone, is_totp_enabled |-> FALSE,
     is_active |-> is_active, roles |-> <<>>]

\* HTTPException(status, detail)
Refused(status, detail) == [status |-> status, detail |-> detail]

\* the response of login() and refresh() when they set the cookies
Granted(us, name, t, body) ==
    [status |-> 200, body |-> body,
     cookies |-> [access_token |-> create_access_token(name, us[name].roles, t),
                  refresh_token |-> create_refresh_token(name, t),
                  xsrf |-> make_csrf(name)]]

\* login() with the two-factor check made only when a code is supplied
LoginWithoutCodeRequired(us, data, t) ==
    LET name == Strip(data.username)
    IN  IF name \notin DOMAIN us
           \/ ~verify_password(data.password, us[name].password_hash)
        THEN Refused(400, PyStr("Invalid credentials"))
        ELSE IF us[name].is_totp_enabled
                /\ data.totp_code \notin {PyNone, PyStr("")}
                /\ ~verify_totp_code(
                       (IF us[name].totp_secret = PyNone THEN ""
                        ELSE us[name].totp_secret.s),
                       data.totp_code, t)
        THEN Refused(400, [message |-> "Invalid two-factor code",
                           error_code |-> "invalid_totp"])
        ELSE Granted(us, name, t,
                     [detail |-> "ok",
                      user |-> [username |-> name, roles |-> us[name].roles]])

\* login(): the response, on the users table us at tick t
login(us, data, t) ==
    LET name == Strip(data.username)
    IN  IF name \notin DOMAIN us
           \/ ~verify_password(data.password, us[name].password_hash)
        THEN Refused(400, PyStr("Invalid credentials"))
        ELSE IF us[name].is_totp_enabled
                /\ data.totp_code \in {PyNone, PyStr("")}
        THEN Refused(400, [message |-> "Two-factor required",
                           error_code |-> "two_factor_required"])
        ELSE IF us[name].is_totp_enabled
                /\ ~verify_totp_code(
                       (IF us[name].totp_secret = PyNone THEN ""
                        ELSE us[name].totp_secret.s),
                       data.totp_code, t)
        THEN Refused(400, [message |-> "Invalid two-factor code",
                           error_code |-> "invalid_totp"])
        ELSE Granted(us, name, t,
                     [detail |-> "ok",
                      user |-> [username |-> name, roles |-> us[name].roles]])

\* refresh(): the response
refresh(us, tok, t) ==
    IF tok = Absent THEN Refused(401, PyStr("No refresh token"))
    ELSE LET d == decode_token(tok, t)
         IN  IF d.raised \/ "type" \notin DOMAIN d.payload
                \/ d.payload.type # "refresh"
             THEN Refused(401, PyStr("Bad refresh token"))
             ELSE IF d.payload.sub \notin DOMAIN us
                     \/ ~us[d.payload.sub].is_active
             THEN Refused(401, PyStr("Inactive user"))
             ELSE Granted(us, d.payload.sub, t, [detail |-> "refreshed"])

\* current_user(): the username, or the 401 it raises
current_user(us, tok, t) ==
    IF tok = Absent THEN Refused(401, PyStr("Not authenticated"))
    ELSE LET d == decode_token(tok, t)
         IN  IF d.raised THEN Refused(401, PyStr("Invalid token"))
             ELSE IF d.payload.sub \notin DOMAIN us
                     \/ ~us[d.payload.sub].is_active
             THEN Refused(401, PyStr("Inactive user"))
             ELSE [status |-> 200, username |-> d.payload.sub]

\* require_csrf(): the username, the 401 of current_user or the 403
require_csrf(us, tok, header, cookie, t) ==
    LET u == current_user(us, tok, t)
    IN  IF u.status # 200 THEN u
        ELSE IF header = Absent \/ cookie = Absent \/ header # cookie
                \/ ~verify_csrf(cookie, u.username)
        THEN Refused(403, PyStr("CSRF failed"))
        ELSE u

\* the tokens a response hands out
TokensOf(response) ==
    IF "cookies" \in DOMAIN response
    THEN {response.cookies.access_token, response.cookies.refresh_token}
    ELSE {}

\* POST /auth/login
Login(data) ==
    /\ \E r \in {login(users, data, now)} :
           /\ exchange' = [op |-> "login", response |-> r]
           /\ issued' = issued \cup TokensOf(r)
    /\ UNCHANGED <<users, now, rotated, SUBSCRIPTIONS, handler, requested,
                   generator, files, pc, frame, ret, parse, batching>>

\* POST /auth/refresh with the refresh_token cookie tok
Refresh(tok) ==
    /\ \E r \in {refresh(users, tok, now)} :
           /\ exchange' = [op |-> "refresh", response |-> r]
           /\ issued' = issued \cup TokensOf(r)
           /\ rotated' = IF r.status = 200 THEN rotated \cup {tok} ELSE rotated
    /\ UNCHANGED <<users, now, SUBSCRIPTIONS, handler, requested,
                   generator, files, pc, frame, ret, parse, batching>>

\* totp_setup() replacing the secret the user has
TotpSetupReplacing(tok, fresh) ==
    /\ \E u \in {current_user(users, tok, now)} :
           IF u.status # 200
           THEN /\ users' = users
                /\ exchange' = [op |-> "totp_setup", response |-> u]
           ELSE /\ users' = [users EXCEPT
                                ![u.username].totp_secret = PyStr(fresh)]
                /\ exchange' = [op |-> "totp_setup", response |->
                                    [status |-> 200,
                                     provision_uri |->
                                         [secret |-> fresh,
                                          name |-> u.username]]]
    /\ UNCHANGED <<now, issued, rotated, SUBSCRIPTIONS, handler, requested,
                   generator, files, pc, frame, ret, parse, batching>>

\* POST /auth/totp/setup with the access_token cookie tok; fresh is what
\* generate_totp_secret() returns when it is called
TotpSetup(tok, fresh) ==
    /\ \E u \in {current_user(users, tok, now)} :
           IF u.status # 200
           THEN /\ users' = users
                /\ exchange' = [op |-> "totp_setup", response |-> u]
           ELSE \E secret \in {IF users[u.username].totp_secret
                                     \in {PyNone, PyStr("")}
                               THEN fresh
                               ELSE users[u.username].totp_secret.s} :
                    /\ users' = [users EXCEPT
                                    ![u.username].totp_secret = PyStr(secret)]
                    /\ exchange' = [op |-> "totp_setup", response |->
                                        [status |-> 200,
                                         provision_uri |->
                                             [secret |-> secret,
                                              name |-> u.username]]]
    /\ UNCHANGED <<now, issued, rotated, SUBSCRIPTIONS, handler, requested,
                   generator, files, pc, frame, ret, parse, batching>>

\* POST /auth/totp/verify with the access_token cookie tok
TotpVerify(tok, code) ==
    /\ \E u \in {current_user(users, tok, now)} :
       \E r \in {IF u.status # 200 THEN u
                 ELSE IF users[u.username].totp_secret \in {PyNone, PyStr("")}
                 THEN Refused(400, [message |-> "No TOTP secret set",
                                    error_code |-> "no_totp_secret"])
                 ELSE IF ~verify_totp_code(users[u.username].totp_secret.s,
                                           code, now)
                 THEN Refused(400, [message |-> "Invalid code",
                                    error_code |-> "invalid_totp"])
                 ELSE [status |-> 200, detail |-> PyStr("enabled")]} :
           /\ users' = IF r.status = 200
                       THEN [users EXCEPT ![u.username].is_totp_enabled = TRUE]
                       ELSE users
           /\ exchange' = [op |-> "totp_verify", response |-> r]
    /\ UNCHANGED <<now, issued, rotated, SUBSCRIPTIONS, handler, requested,
                   generator, files, pc, frame, ret, parse, batching>>

\* POST /auth/totp/disable with the access_token cookie tok, the
\* X-CSRF-Token header and the XSRF-TOKEN cookie
TotpDisable(tok, header, cookie) ==
    /\ \E u \in {require_csrf(users, tok, header, cookie, now)} :
           /\ users' = IF u.status = 200
                       THEN [users EXCEPT
                                ![u.username].is_totp_enabled = FALSE,
                                ![u.username].totp_secret = PyNone]
                       ELSE users
           /\ exchange' = [op |-> "totp_disable", response |-> IF u.status = 200
                                        THEN [status |-> 200,
                                              detail |-> PyStr("disabled")]
                                        ELSE u]
    /\ UNCHANGED <<now, issued, rotated, SUBSCRIPTIONS, handler, requested,
                   generator, files, pc, frame, ret, parse, batching>>

\* the clock advances
Tick ==
    /\ now < MaxTime
    /\ now' = now + 1
    /\ UNCHANGED <<users, issued, rotated, exchange, SUBSCRIPTIONS, handler,
                   requested, generator, files, pc, frame, ret, parse, batching>>

\* the one-time codes a client sends: the code of each secret for this time
\* step, and a code of another time step
Codes ==
    {TotpAt(secret, now) : secret \in Secrets}
    \cup {TotpAt("JBSWY3DPEHPK3PXP", now + 1)}

\* the request bodies of login
LoginData ==
    [username : {"alice", " alice ", "ghost"},
     password : {"correct horse", "wrong"},
     totp_code : {PyNone, PyStr("")} \cup Codes]

\* the token cookies a client can send: none, a token the backend signed,
\* a token signed with another key
Forged ==
    [payload |-> [sub |-> "alice", type |-> "refresh",
                  exp |-> MaxTime + RefreshTtl],
     sig |-> "other"]
Tokens == {Absent, Forged} \cup issued

\* the X-CSRF-Token header and XSRF-TOKEN cookie a client can send: none,
\* the user's token in both, in one only, two different tokens, another
\* user's token, a token signed with another key
CsrfPairs ==
    {<<Absent, Absent>>, <<make_csrf("alice"), make_csrf("alice")>>,
     <<make_csrf("alice"), Absent>>,
     <<make_csrf("ghost"), make_csrf("alice")>>,
     <<make_csrf("ghost"), make_csrf("ghost")>>,
     <<[payload |-> [sub |-> "alice"], sig |-> "other"],
       [payload |-> [sub |-> "alice"], sig |-> "other"]>>}

\* the backend with one registered user, active or not, and no request yet
InitAuth ==
    /\ template_file = <<>>
    /\ hazard_types_file = <<>>
    /\ hazard_types = <<>>
    /\ fields = <<>>
    /\ field_map = <<>>
    /\ files = [p \in Paths |-> NoFile]
    /\ pc = [t \in Threads |-> "idle"]
    /\ frame = [t \in Threads |-> NoFrame]
    /\ ret = [t \in Threads |-> NoRet]
    /\ parse = NoParse
    /\ SUBSCRIPTIONS = <<>>
    /\ handler = [h \in Handlers |-> NoRequest]
    /\ requested = <<>>
    /\ \E is_active \in BOOLEAN :
           users = [name \in {"alice"} |->
                       User(name, "correct horse", is_active)]
    /\ now = 0
    /\ issued = {}
    /\ rotated = {}
    /\ exchange = NoExchange
    /\ batching = NoBatching

\* requests to the auth API, served one after the other
NextAuth ==
    \/ \E data \in LoginData : Login(data)
    \/ \E tok \in Tokens : Refresh(tok)
    \/ \E tok \in Tokens, fresh \in Secrets : TotpSetup(tok, fresh)
    \/ \E tok \in Tokens, code \in Codes : TotpVerify(tok, code)
    \/ \E tok \in Tokens, csrf \in CsrfPairs :
           TotpDisable(tok, csrf[1], csrf[2])
    \/ Tick

SpecAuth == InitAuth /\ [][NextAuth]_vars

(***************************************************************************)
(* Properties: vocabulary                                                  *)
(***************************************************************************)

\* thread t has rendered at least one field in its call
HasRendered(t) == pc[t] \in {"loop", "done"} /\ frame[t].i >= 2

\* the field thread t rendered last
LastField(t) == fields[frame[t].i - 1]

\* the number of lines a field's trailing prose takes in the document
TrailLen(f) == IF f.prose_lines = <<>> THEN 0 ELSE Len(f.prose_lines) + 1

\* the value line of the field thread t rendered last (a named field other
\* than a code field): it is followed by a blank line and the trailing prose
RenderedValue(t) ==
    frame[t].lines[Len(frame[t].lines) - 1 - TrailLen(LastField(t))]

\* thread t has just rendered a field of the given kind
JustRendered(t, kind) == HasRendered(t) /\ LastField(t).field_type = kind

LabelsOf(f) == {f.labels[n] : n \in 1..Len(f.labels)}

\* the non-calculate fields that declare a label, by position
Declarers(lbl) ==
    {i \in 1..Len(fields) :
        fields[i].field_type # "calculate" /\ lbl \in LabelsOf(fields[i])}

\* the field that owns a declared label: the last one to declare it
Owner(lbl) ==
    fields[CHOOSE i \in Declarers(lbl) : \A k \in Declarers(lbl) : k <= i]

\* the caller of thread t supplied a value (not null) under the name
Supplied(t, name) ==
    name \in DOMAIN frame[t].values /\ frame[t].values[name] # PyNone

\* the value supplied for the owner of a label
DepValue(t, lbl) == frame[t].values[Owner(lbl).name]

\* every label of f has an owner with a supplied value other than "TBC"
AllScored(t, f) ==
    \A lbl \in LabelsOf(f) :
        /\ Declarers(lbl) # {}
        /\ Supplied(t, Owner(lbl).name)
        /\ DepValue(t, lbl) # PyStr("TBC")

\* the composite key: "{label}{str(value)}" in label order, joined by "-"
CompositeKey(t, f) ==
    Join("-", [n \in 1..Len(f.labels) |->
                  f.labels[n] \o Str(DepValue(t, f.labels[n]))])

\* the options of f whose matcher list holds the key, by position
Holders(f, key) ==
    {i \in 1..Len(f.options) :
        \E j \in 1..Len(f.options[i].matchers) : f.options[i].matchers[j] = key}

TbcAwaiting == "TBC (awaiting scoring of dependencies)"

(***************************************************************************)
(* C1..C4: calculate fields                                                *)
(***************************************************************************)

\* C1 (as claimed): a calculate field with two or more labels, one of whose
\* owning fields was supplied the string "TBC", renders the TBC diagnostic.
C1_TbcDependencyRendersTbc ==
    \A t \in Threads :
        (/\ JustRendered(t, "calculate")
         /\ Len(LastField(t).labels) >= 2
         /\ \E lbl \in LabelsOf(LastField(t)) :
                /\ Declarers(lbl) # {}
                /\ Supplied(t, Owner(lbl).name)
                /\ DepValue(t, lbl) = PyStr("TBC"))
        => RenderedValue(t) = TbcAwaiting

HasUnmatchedKey(t) ==
    /\ pc[t] # "idle"
    /\ \E k \in 1..Len(fields) :
           /\ fields[k].field_type = "calculate"
           /\ Len(fields[k].labels) >= 2
           /\ AllScored(t, fields[k])
           /\ Holders(fields[k], CompositeKey(t, fields[k])) = {}

HasUnscoredLabel(t, f) ==
    \E lbl \in LabelsOf(f) :
        Declarers(lbl) = {} \/ ~Supplied(t, Owner(lbl).name)

OwnNameCalculates ==
    {k \in 1..Len(fields) :
        /\ fields[k].field_type = "calculate"
        /\ fields[k].name # "General utility label"
        /\ \A j \in 1..Len(fields) : j # k => fields[j].name # fields[k].name}

\* values without the entry under name
Without(values, name) == [k \in DOMAIN values \ {name} |-> values[k]]

\* C5: the document a call has written is the document of the same call
\* with the entry under the name of a calculate field removed (a name no
\* other field has and the ICON branch does not read); so two calls whose
\* values differ only in that entry write the same document.
C5_CalculateIgnoresCaller ==
    \A t \in Threads :
        pc[t] = "done"
        => \A k \in OwnNameCalculates :
               generate(fields, Without(frame[t].values, fields[k].name),
                        frame[t].hazard_id)
                   = [raised |-> FALSE,
                      text |-> files[frame[t].output_path].text]

\* the caller supplied "2", the key of an option of the calculate field, and
\* the document shows the option derived from Likelihood and Severity
C5_Witness ==
    \E t \in Threads :
        /\ pc[t] = "done"
        /\ JustRendered(t, "calculate")
        /\ frame[t].i - 1 \in OwnNameCalculates
        /\ Supplied(t, LastField(t).name)
        /\ frame[t].values[LastField(t).name] = PyStr("2")
        /\ \E i \in 1..Len(LastField(t).options) : LastField(t).options[i].key = "2"
        /\ RenderedValue(t) = "1 - Low [L1-S1, L1-S2]"
        /\ files[frame[t].output_path].exists

\* the header lines of a template file, stripped
HeaderLinesOf(lines) ==
    SelectSeq([i \in 1..Len(lines) |-> Strip(lines[i])],
              LAMBDA l : StartsWith(l, "### "))

\* the sub-header lines of a document
SubHeaders(lines) == SelectSeq(lines, LAMBDA l : StartsWith(l, "### "))

\* C6 (as claimed): the named fields are the headers of the template in line
\* order; the sub-headers of a written document are "### " followed by the
\* entries of field_names, in that order, each between blank lines.
C6_SubHeadersAreFieldNames ==
    /\ HeaderNames(fields)
           = [i \in 1..Len(HeaderLinesOf(template_file)) |->
                 Strip(From(HeaderLinesOf(template_file)[i], 5))]
    /\ \A t \in Threads :
           pc[t] = "done"
           => /\ SubHeaders(frame[t].lines)
                     = [i \in 1..Len(field_names(fields)) |->
                           "### " \o field_names(fields)[i]]
              /\ \A n \in 1..Len(frame[t].lines) :
                     StartsWith(frame[t].lines[n], "### ")
                     => /\ frame[t].lines[n + 1] = ""
                        /\ n > 1 => frame[t].lines[n - 1] = ""

\* C7 (as claimed): no call of generate() raises, and a call that is done
\* has written its file and returned the output path.
C7_GenerateNeverRaises ==
    \A t \in Threads :
        /\ pc[t] # "raised"
        /\ pc[t] = "done"
           => /\ files[frame[t].output_path].exists
              /\ ret[t] = [kind |-> "path", path |-> frame[t].output_path]

\* C8: no step of generate(), field_names or get_field() changes the fields,
\* the field map or the hazard types, and no step of a call changes the
\* values mapping the call was given.
C8_FieldModelFrozen ==
    [][/\ generator' = generator
       /\ \A t \in Threads :
              pc[t] # "idle" => frame'[t].values = frame[t].values]_vars

\* one thread has finished a call with values and another has read a field
\* back with get_field, the same field the generator was built with
C8_Witness ==
    \E t, u \in Threads :
        /\ pc[t] = "done"
        /\ DOMAIN frame[t].values # {}
        /\ pc[u] = "idle"
        /\ ret[u].kind = "field"
        /\ ret[u].field = fields[Len(fields)]
        /\ fields = InjectHazardTypes(parse_template(template_file), hazard_types)

\* the call of thread t shares its output path with no call of another thread
OwnPath(t) ==
    \A u \in Threads \ {t} :
        pc[u] # "idle" => frame[u].output_path # frame[t].output_path

\* C9: a finished call whose output path no other call targets has left in
\* its file the text that generate() produces for its values and hazard id
\* when run alone.
C9_CallsIndependent ==
    \A t \in Threads :
        (pc[t] = "done" /\ OwnPath(t))
        => /\ ~generate(fields, frame[t].values, frame[t].hazard_id).raised
           /\ files[frame[t].output_path]
                  = FileText(generate(fields, frame[t].values,
                                      frame[t].hazard_id).text)

\* two calls with different values and different paths were both in their
\* loop at the same time and have both finished, with different documents
C9_Witness ==
    \E t, u \in Threads :
        /\ pc[t] = "done" /\ pc[u] = "done"
        /\ frame[t].output_path # frame[u].output_path
        /\ frame[t].values # frame[u].values
        /\ files[frame[t].output_path].exists
        /\ files[frame[u].output_path].exists
        /\ files[frame[t].output_path] # files[frame[u].output_path]

\* the options of f whose key is str(v), by position
Keyed(f, v) == {i \in 1..Len(f.options) : f.options[i].key = Str(v)}

\* C10: a select field with a supplied value v renders the template line of
\* the first option whose key is str(v), or "{v} (unrecognised option)" when
\* no option has that key; no select field makes the call raise.
C10_SelectOutcome ==
    \A t \in Threads :
        /\ (JustRendered(t, "select") /\ Supplied(t, LastField(t).name))
           => IF Keyed(LastField(t), frame[t].values[LastField(t).name]) # {}
              THEN \E i \in Keyed(LastField(t), frame[t].values[LastField(t).name]) :
                       /\ \A j \in Keyed(LastField(t),
                                         frame[t].values[LastField(t).name]) : i <= j
                       /\ RenderedValue(t) = LastField(t).options[i].raw_line
              ELSE RenderedValue(t)
                       = Str(frame[t].values[LastField(t).name])
                         \o " (unrecognised option)"
        /\ pc[t] = "raised" => fields[frame[t].i].field_type # "select"

\* the integer 1 supplied to a field with two options keyed "1": the first
\* of them is rendered
C10_Witness ==
    \E t \in Threads :
        /\ JustRendered(t, "select")
        /\ Supplied(t, LastField(t).name)
        /\ frame[t].values[LastField(t).name] = PyInt(1)
        /\ Cardinality(Keyed(LastField(t), PyInt(1))) = 2
        /\ RenderedValue(t) = "1 - One"

(***************************************************************************)
(* C11..C19: values, parsing, introspection                                *)
(***************************************************************************)

\* the line of one entry of a multiselect value, resolved on its own
EntryLine(f, e) ==
    IF Keyed(f, e) # {}
    THEN f.options[CHOOSE i \in Keyed(f, e) : \A j \in Keyed(f, e) : i <= j].raw_line
    ELSE "- " \o Str(e)

\* C11: a multiselect field supplied with a non-empty list renders one line
\* per entry, in list order, each the line that entry has on its own: the
\* first option keyed str(entry), else "- {entry}"; no multiselect field
\* makes the call raise.
C11_MultiselectPerEntry ==
    \A t \in Threads :
        /\ (/\ JustRendered(t, "multiselect")
            /\ Supplied(t, LastField(t).name)
            /\ frame[t].values[LastField(t).name].t = "list"
            /\ frame[t].values[LastField(t).name].l # <<>>)
           => Split(RenderedValue(t), "\n")
                  = [n \in 1..Len(frame[t].values[LastField(t).name].l) |->
                        EntryLine(LastField(t),
                                  frame[t].values[LastField(t).name].l[n])]
        /\ pc[t] = "raised" => fields[frame[t].i].field_type # "multiselect"

\* the list ["02", 2]: the unknown entry renders as a bullet and the entry
\* after it still renders its option
C11_Witness ==
    \E t \in Threads :
        /\ JustRendered(t, "multiselect")
        /\ Supplied(t, LastField(t).name)
        /\ frame[t].values[LastField(t).name] = Pair
        /\ Keyed(LastField(t), PyStr("02")) = {}
        /\ Keyed(LastField(t), PyInt(2)) # {}
        /\ RenderedValue(t) = "- 02\n2 - Dos"

\* the entry of the call of thread t under the name of the field it
\* rendered last, None when there is no entry
LastValue(t) == Get(frame[t].values, LastField(t).name)

\* C12: a named field without a value (no entry, or null) renders the
\* default of its kind: a text field its placeholder text, a select field
\* "TBC", a multiselect field "None selected", a code field "No code
\* references yet."; an empty list gives the same default for multiselect
\* and code fields; a text field with a value renders str(value).
C12_AbsentRendersDefault ==
    \A t \in Threads :
        HasRendered(t)
        => /\ (LastField(t).field_type = "text" /\ LastValue(t) = PyNone)
              => RenderedValue(t) = LastField(t).placeholder_text
           /\ (LastField(t).field_type = "text" /\ LastValue(t) # PyNone)
              => RenderedValue(t) = Str(LastValue(t))
           /\ (LastField(t).field_type = "select" /\ LastValue(t) = PyNone)
              => RenderedValue(t) = "TBC"
           /\ (/\ LastField(t).field_type = "multiselect"
               /\ LastValue(t) \in {PyNone, PyList(<<>>)})
              => RenderedValue(t) = "None selected"
           /\ (/\ LastField(t).field_type = "code"
               /\ LastValue(t) \in {PyNone, PyList(<<>>)})
              => RenderedValue(t) = "No code references yet."

\* a call with no entry for the text field Description: its two placeholder
\* lines are in the document
C12_Witness ==
    \E t \in Threads :
        /\ pc[t] = "done"
        /\ JustRendered(t, "text")
        /\ LastField(t).name = "Description"
        /\ "Description" \notin DOMAIN frame[t].values
        /\ RenderedValue(t) = "Describe the hazard\nin plain words"

\* the bullet lines of a file: the lines that, stripped, start with "- "
BulletLines(lines) ==
    SelectSeq([i \in 1..Len(lines) |-> Strip(lines[i])],
              LAMBDA l : StartsWith(l, "- "))

\* the category a bullet line names
CategoryOf(bullet) == Strip(From(bullet, 3))

\* C13: once the generator is constructed, a field marked [hazard-types]
\* has one option per bullet line of the hazard types file, in file order,
\* with key = label = the category, no description and raw_line
\* "- {category}", whatever options the template gave it; every other field
\* has the options parsed from the template.
C13_TaxonomyOptions ==
    ~parse.running
    => \A parsed \in {parse_template(template_file)} :
           /\ Len(fields) = Len(parsed)
           /\ \A k \in 1..Len(fields) :
                  IF fields[k].uses_hazard_types
                  THEN fields[k].options
                           = [n \in 1..Len(BulletLines(hazard_types_file)) |->
                                 [key |-> CategoryOf(BulletLines(hazard_types_file)[n]),
                                  label |-> CategoryOf(BulletLines(hazard_types_file)[n]),
                                  description |-> "",
                                  matchers |-> <<>>,
                                  raw_line |-> "- " \o CategoryOf(
                                                  BulletLines(hazard_types_file)[n])]]
                  ELSE fields[k].options = parsed[k].options

\* a marked field whose template options were replaced by the two categories
\* of a file that also has a heading, a blank line and a line "-none"
C13_Witness ==
    /\ ~parse.running
    /\ Len(hazard_types_file) = 5
    /\ \E k \in 1..Len(fields) :
           /\ fields[k].uses_hazard_types
           /\ parse_template(template_file)[k].options # <<>>
           /\ Len(fields[k].options) = 2
           /\ fields[k].options[1].raw_line = "- WrongPatient"
           /\ fields[k].options[2].key = "Delay"

\* the line the next iteration of the parse loop reads, stripped
NextLine == Strip(template_file[parse.i + 1])

\* parse_template is running and has a line left to read
Reading == parse.running /\ parse.i < Len(template_file)

\* the parser is collecting the options of a typed field
Collecting ==
    /\ Reading
    /\ parse.st.current_field # 0
    /\ parse.st.in_field_type_options

\* an icon marker, a separator or a header
Structural(l) ==
    StartsWith(l, "<!-- [icon] -->") \/ l = "---" \/ StartsWith(l, "### ")

\* a type marker or the [hazard-types] marker
Marker(l) == TypeMatch(l).ok \/ l = "[hazard-types]"

\* C14: while the options of a typed field are collected, reading a line
\* that is not blank, not a header, separator, icon or marker line, not an
\* option line and not "TBC" appends it to the prose lines of that field and
\* changes nothing else: the parse goes on, still collecting options for the
\* same field; and reading an option line while collecting appends an option
\* with that line as its raw_line.
C14_NoteKeptAsProse ==
    [][/\ (/\ Collecting
           /\ NextLine # ""
           /\ ~Structural(NextLine) /\ ~Marker(NextLine)
           /\ ~OptionMatch(NextLine).ok /\ NextLine # "TBC")
          => /\ parse'.running /\ parse'.i = parse.i + 1
             /\ parse'.st
                    = [parse.st EXCEPT
                          !.fields[parse.st.current_field].prose_lines =
                              Append(@, NextLine)]
       /\ (/\ Collecting
           /\ ~Structural(NextLine) /\ ~Marker(NextLine)
           /\ OptionMatch(NextLine).ok)
          => /\ parse'.running /\ parse'.i = parse.i + 1
             /\ \E o \in {OptionMatch(NextLine)} :
                    parse'.st
                        = [parse.st EXCEPT
                              !.fields[parse.st.current_field].options =
                                  Append(@, FieldOption(o.key, Strip(o.label),
                                                        Strip(o.description),
                                                        MatcherList(o.matchers_str),
                                                        NextLine))]]_vars

\* an option, a note and an option again: the field has both options and
\* the note, and the parser is still collecting
C14_Witness ==
    /\ parse.running
    /\ parse.i = 9
    /\ SubSeq(template_file, 7, 9) = <<"1 - Uno", "see above", "2 - Dos">>
    /\ parse.st.in_field_type_options
    /\ parse.st.fields[parse.st.current_field].prose_lines = <<"see above">>
    /\ Len(parse.st.fields[parse.st.current_field].options) = 2
    /\ parse.st.fields[parse.st.current_field].options[2].raw_line = "2 - Dos"

\* the first n lines of the template file, stripped
ReadLines(n) == [k \in 1..n |-> Strip(template_file[k])]

\* line n is read inside a field: the last icon, separator or header line
\* before it is a header
InsideField(n) ==
    \E h \in 1..(n - 1) :
        /\ StartsWith(Strip(template_file[h]), "### ")
        /\ \A k \in (h + 1)..(n - 1) : ~Structural(Strip(template_file[k]))

\* the lines among the first n that carry text: not blank, not an icon,
\* separator or header line, and not a marker of the field they are in
TextLines(n) ==
    {k \in 1..n :
        /\ Strip(template_file[k]) # ""
        /\ ~Structural(Strip(template_file[k]))
        /\ ~(InsideField(k) /\ Marker(Strip(template_file[k])))}

\* the places a field stores text in: its placeholder text line by line,
\* the lines of its options, its prose lines
PlacesOf(f) ==
    <<IF f.placeholder_text = "" THEN <<>> ELSE Split(f.placeholder_text, "\n"),
      [n \in 1..Len(f.options) |-> f.options[n].raw_line],
      f.prose_lines>>

\* every text stored in the first k fields
RECURSIVE StoredIn(_, _)
StoredIn(fs, k) ==
    IF k = 0 THEN <<>>
    ELSE StoredIn(fs, k - 1) \o PlacesOf(fs[k])[1] \o PlacesOf(fs[k])[2]
         \o PlacesOf(fs[k])[3]

\* how often x occurs in a sequence
CountIn(seq, x) == Cardinality({n \in 1..Len(seq) : seq[n] = x})

\* a is b with some of its entries left out
RECURSIVE IsSubseq(_, _, _, _)
IsSubseq(a, i, b, j) ==
    IF i > Len(a) THEN TRUE
    ELSE IF j > Len(b) THEN FALSE
    ELSE IF a[i] = b[j] THEN IsSubseq(a, i + 1, b, j + 1)
    ELSE IsSubseq(a, i, b, j + 1)

\* what has been read so far is stored: each text as often as lines carry
\* it, and every place in the order of the lines
NothingDropped ==
    parse.running
    => \A stored \in {StoredIn(parse.st.fields, Len(parse.st.fields))} :
           /\ Len(stored) = Cardinality(TextLines(parse.i))
           /\ \A k \in TextLines(parse.i) :
                  CountIn(stored, Strip(template_file[k]))
                      = Cardinality({m \in TextLines(parse.i) :
                                        Strip(template_file[m])
                                            = Strip(template_file[k])})
           /\ \A f \in 1..Len(parse.st.fields), place \in 1..3 :
                  IsSubseq(PlacesOf(parse.st.fields[f])[place], 1,
                           ReadLines(parse.i), 1)

\* reading a plain line outside any field starts a prose entry or extends
\* the one that ends the list
ProseOutsideFields ==
    (/\ Reading
     /\ parse.st.current_field = 0
     /\ NextLine # "" /\ ~Structural(NextLine))
    => /\ parse'.st.current_field = 0
       /\ Last(parse'.st.fields).field_type = "prose"
       /\ Last(Last(parse'.st.fields).prose_lines) = NextLine
       /\ IF parse.st.fields # <<>> /\ Last(parse.st.fields).field_type = "prose"
          THEN parse'.st.fields
                   = [parse.st.fields EXCEPT
                         ![Len(parse.st.fields)].prose_lines = Append(@, NextLine)]
          ELSE /\ Len(parse'.st.fields) = Len(parse.st.fields) + 1
               /\ SubSeq(parse'.st.fields, 1, Len(parse.st.fields))
                      = parse.st.fields
               /\ Last(parse'.st.fields).prose_lines = <<NextLine>>

\* C15: at every point of the parse, every line read so far that carries
\* text is stored exactly once (in an option, a placeholder text, the prose
\* of a field or a prose entry) and every place keeps the order of the
\* lines; a plain line outside any field starts or extends a prose entry,
\* after a separator or not.
C15_NoTextDropped == []NothingDropped /\ [][ProseOutsideFields]_vars

\* the whole of a template is read: its first line, outside any field and
\* after no separator, is a prose entry, and options, a placeholder and a
\* note of a typed field are stored too
C15_Witness ==
    /\ parse.running
    /\ template_file = TplTypes
    /\ parse.i = Len(template_file)
    /\ parse.st.fields[1].field_type = "prose"
    /\ parse.st.fields[1].prose_lines = <<"Hazard log">>
    /\ \E f \in 1..Len(parse.st.fields) :
           parse.st.fields[f].placeholder_text = "hidden notes"
    /\ \E f \in 1..Len(parse.st.fields) :
           /\ parse.st.fields[f].options # <<>>
           /\ parse.st.fields[f].uses_hazard_types
    /\ Last(parse.st.fields).prose_lines = <<"paths from the repository root">>

\* a field declared by a header: not an icon, separator or prose entry
Named(f) == f.field_type \notin {"icon", "separator", "prose"}

\* the last n lines of a sequence
LastLines(seq, n) == SubSeq(seq, Len(seq) - n + 1, Len(seq))

\* C16: when a named field of any kind has been rendered, the lines end
\* with its header, the lines of its resolved value (closed by a blank
\* line) and then its prose lines in order (closed by a blank line when
\* there are any), whatever the caller supplied for the field.
C16_ProseFollowsValue ==
    \A t \in Threads :
        (HasRendered(t) /\ Named(LastField(t)))
        => \A f \in {LastField(t)} :
           \A value \in {ValueOutput(fields, f, frame[t].values)} :
           \A block \in {value
                         \o f.prose_lines
                         \o (IF f.prose_lines = <<>> THEN <<>> ELSE <<"">>)} :
               /\ Len(frame[t].lines) >= Len(block) + 2
               /\ LastLines(frame[t].lines, Len(block)) = block
               /\ LastLines(frame[t].lines, Len(block) + 2)[1] = "### " \o f.name
               /\ LastLines(frame[t].lines, Len(block) + 2)[2] = ""

\* a calculate field with a note has been rendered for a key no option
\* claims: the note follows the diagnostic
C16_Witness ==
    /\ JustRendered(1, "calculate")
    /\ LastField(1).prose_lines = <<"See the risk matrix">>
    /\ LastLines(frame[1].lines, 6)
           = <<"### Risk", "", "No matching risk level for L2-S1", "",
               "See the risk matrix", "">>

\* the glyphs of the lookup table
Glyphs == {UTILITY_LABEL_ICONS[k] : k \in DOMAIN UTILITY_LABEL_ICONS}

\* the "General utility label" entry of the call of thread t
UtilityValue(t) == Get(frame[t].values, "General utility label")

\* C17 (as claimed): an icon marker is rendered as one line: for a list
\* with entries, one glyph of the lookup table per entry; for no entry or an
\* empty list, the caution glyph alone; and rendering it never raises.
C17_IconPerEntry ==
    \A t \in Threads :
        /\ JustRendered(t, "icon")
           => \A line \in {frame[t].lines[Len(frame[t].lines) - 1]} :
              \A v \in {UtilityValue(t)} :
                  /\ (v.t = "list" /\ v.l # <<>>)
                     => \E glyphs \in [1..Len(v.l) -> Glyphs] :
                            line = "<!-- " \o Join(" ", glyphs) \o " -->"
                  /\ (v.t = "none" \/ v = PyList(<<>>))
                     => line = "<!-- (!) -->"
        /\ pc[t] = "raised" => fields[frame[t].i].field_type # "icon"

\* the header-declared fields, in template order
HeaderFields(fs) == SelectSeq(fs, Named)

\* C18 (as claimed): field_names returns the names of the header-declared
\* fields in template order; get_field of the i-th of these names returns
\* the i-th header-declared field, and get_field of any other name returns
\* None.
C18_Introspection ==
    \A t \in Threads :
        /\ ret[t].kind = "names" => ret[t].names = HeaderNames(fields)
        /\ ret[t].kind = "field"
           => \A names \in {field_names(fields)} :
                  /\ \A i \in 1..Len(names) :
                         names[i] = ret[t].name
                         => ret[t].field = HeaderFields(fields)[i]
                  /\ (\A i \in 1..Len(names) : names[i] # ret[t].name)
                     => ret[t].field = NoField

\* the option lines of a field
OptionLines(f) == {OptionText(f.options[i]) : i \in 1..Len(f.options)}

\* the line of the first option of f whose key is str(v)
KeyedLine(f, v) ==
    OptionText(f.options[CHOOSE i \in Keyed(f, v) : \A j \in Keyed(f, v) : i <= j])

\* the entries of a multiselect value: a list as it is, a scalar alone
Entries(v) == IF v.t = "list" THEN v.l ELSE <<v>>

\* C19: an option is selected exactly when its key equals str(value). A
\* select field with a supplied value shows an option line iff some key is
\* str(value), and then the line of the first such option; each entry of a
\* multiselect value likewise; a calculate field whose dependencies are all
\* supplied shows an option line iff some matcher equals the key composed of
\* the labels and str() of the supplied values.
C19_ExactKeyMatch ==
    \A t \in Threads :
        /\ (JustRendered(t, "select") /\ LastValue(t) # PyNone)
           => \A f \in {LastField(t)}, v \in {LastValue(t)} :
                  /\ RenderedValue(t) \in OptionLines(f) <=> Keyed(f, v) # {}
                  /\ Keyed(f, v) # {} => RenderedValue(t) = KeyedLine(f, v)
        /\ (JustRendered(t, "multiselect") /\ LastValue(t) # PyNone
            /\ Entries(LastValue(t)) # <<>>)
           => \A f \in {LastField(t)}, es \in {Entries(LastValue(t))} :
              \A shown \in {Split(RenderedValue(t), "\n")} :
                  /\ Len(shown) = Len(es)
                  /\ \A n \in 1..Len(es) :
                         /\ shown[n] \in OptionLines(f) <=> Keyed(f, es[n]) # {}
                         /\ Keyed(f, es[n]) # {} => shown[n] = KeyedLine(f, es[n])
        /\ (JustRendered(t, "calculate") /\ Len(LastField(t).labels) >= 2
            /\ AllScored(t, LastField(t)))
           => \A f \in {LastField(t)} :
                  RenderedValue(t) \in OptionLines(f)
                      <=> Holders(f, CompositeKey(t, f)) # {}

\* a select field with an option of key "2" was supplied "02": no option
\* is selected
C19_Witness ==
    /\ JustRendered(1, "select")
    /\ LastValue(1) = PyStr("02")
    /\ \E i \in 1..Len(LastField(1).options) : LastField(1).options[i].key = "2"
    /\ RenderedValue(1) = "02 (unrecognised option)"

(***************************************************************************)
(* C20: push subscriptions                                                 *)
(***************************************************************************)

\* the endpoints requested so far
RequestedEndpoints == {requested[n].endpoint : n \in 1..Len(requested)}

\* of a history of requests, those that were the first for their endpoint,
\* as stored
FirstOf(reqs) ==
    LET first == SelectSeq([n \in 1..Len(reqs) |-> n],
                           LAMBDA n : \A m \in 1..(n - 1) :
                               reqs[m].endpoint # reqs[n].endpoint)
    IN  [k \in 1..Len(first) |-> model_dump(reqs[first[k]])]

\* the requests before the last one
Earlier == SubSeq(requested, 1, Len(requested) - 1)

\* a request is being served whose endpoint an earlier request had
Resubscribing ==
    /\ ~Quiet
    /\ \E n \in 1..Len(Earlier) :
           Earlier[n].endpoint = requested[Len(requested)].endpoint

\* no two stored subscriptions share an endpoint; between requests the list
\* holds the first subscription requested for each endpoint, in request
\* order; while an endpoint is subscribed again the list stays what it was
\* before the request
OnePerEndpoint ==
    /\ \A i, j \in 1..Len(SUBSCRIPTIONS) :
           SUBSCRIPTIONS[i].endpoint = SUBSCRIPTIONS[j].endpoint => i = j
    /\ Quiet => SUBSCRIPTIONS = FirstOf(requested)
    /\ Resubscribing => SUBSCRIPTIONS = FirstOf(Earlier)

\* the list changes only by a request appending its subscription; the
\* count returned is the number of distinct endpoints requested so far
SubscribeStep ==
    /\ SUBSCRIPTIONS' # SUBSCRIPTIONS
       => /\ ~Resubscribing
          /\ SUBSCRIPTIONS'
                 = Append(SUBSCRIPTIONS, model_dump(requested[Len(requested)]))
    /\ \A h \in Handlers :
           (handler[h].pc # "done" /\ handler'[h].pc = "done")
           => handler'[h].response
                  = [ok |-> TRUE, count |-> Cardinality(RequestedEndpoints)]

\* C20: after any sequence of subscribe calls no two stored subscriptions
\* share an endpoint; a subscribe whose endpoint is already stored leaves
\* the list unchanged; the count returned is the number of distinct
\* endpoints subscribed so far.
C20_OnePerEndpoint == []OnePerEndpoint /\ [][SubscribeStep]_vars

\* an endpoint was subscribed twice, with different keys, and another
\* endpoint in between: two subscriptions are stored, the first of them
\* with the keys of the first request, and the last request was told 2
C20_Witness ==
    /\ Len(requested) = 3
    /\ requested[1].endpoint = requested[3].endpoint
    /\ requested[1].keys # requested[3].keys
    /\ requested[2].endpoint # requested[1].endpoint
    /\ Len(SUBSCRIPTIONS) = 2
    /\ SUBSCRIPTIONS[1] = model_dump(requested[1])
    /\ \E h \in Handlers :
           /\ handler[h].pc = "done"
           /\ handler[h].sub = requested[3]
           /\ handler[h].response.count = 2

(***************************************************************************)
(* C21: send-test                                                          *)
(***************************************************************************)

\* the subscriptions of a log whose delivery raised WebPushException
FailedIn(log) ==
    SelectSeq([n \in 1..Len(log) |-> log[n].sub],
              LAMBDA x : \E n \in 1..Len(log) :
                  log[n].sub = x /\ log[n].outcome = "WebPushException")

\* handler h ends a call of send_test() in this step
SendEnds(h) ==
    /\ handler[h] # handler'[h]
    /\ handler'[h].pc = "done"
    /\ "log" \in DOMAIN handler'[h]

\* the end of a call of send_test() as claimed: on an empty list, 400 and
\* the list unchanged; otherwise every subscription of the list at the
\* start was attempted once, the list keeps those that did not raise
\* WebPushException in their order, and the response lists the endpoints of
\* the others
SendEndsAsClaimed ==
    \A h \in Handlers :
        SendEnds(h)
        => \A r \in {handler'[h]} :
               IF r.start = <<>>
               THEN /\ r.status = 400
                    /\ r.log = <<>>
                    /\ SUBSCRIPTIONS' = SUBSCRIPTIONS
               ELSE /\ [n \in 1..Len(r.log) |-> r.log[n].sub] = r.start
                    /\ SUBSCRIPTIONS'
                           = SelectSeq(r.start,
                                       LAMBDA x : ~Holds(FailedIn(r.log), x))
                    /\ r.status = 200
                    /\ r.body = [sent |-> TRUE,
                                 removed |-> [n \in 1..Len(FailedIn(r.log)) |->
                                                 FailedIn(r.log)[n].endpoint]]

\* C21 (as claimed): send-test attempts delivery to every subscription
\* present when the call starts, once each; afterwards the list holds the
\* subscriptions whose delivery did not raise WebPushException, in their
\* order, and the removed list is the endpoints of the others; with no
\* subscriptions it returns 400 and changes nothing.
C21_SendTest == [][SendEndsAsClaimed]_vars

(***************************************************************************)
(* C22, C23, C28: authentication                                           *)
(***************************************************************************)

\* a refresh token a refresh succeeded with, presented again before it
\* expires, is refused with 401
ReplayRefused ==
    \A tok \in rotated :
        (now <= tok.payload.exp /\ Refresh(tok))
        => exchange'.response.status = 401

\* C22 (as claimed): after a refresh succeeds with a refresh token, a later
\* refresh presenting the same token before its expiry is rejected with 401.
C22_RefreshRotates == [][ReplayRefused]_vars

\* the user has two-factor authentication enabled
TotpEnabled(name) == name \in DOMAIN users /\ users[name].is_totp_enabled

\* the code is the one the user's stored secret gives now
ValidCode(name, code) ==
    /\ users[name].totp_secret \notin {PyNone, PyStr("")}
    /\ code = TotpAt(users[name].totp_secret.s, now)

\* a response that sets no cookie and hands out no token
NoCookies == "cookies" \notin DOMAIN exchange'.response /\ issued' = issued

\* a login for a user with two-factor authentication enabled
LoginGuarded ==
    \A name \in {n \in DOMAIN users :
                      exchange'.op = "login" /\ TotpEnabled(n)} :
    \A data \in {d \in LoginData : Strip(d.username) = name} :
        Login(data)
        => \A right \in {users[name].password_hash
                             = hash_password(data.password)} :
               /\ "cookies" \in DOMAIN exchange'.response
                  => right /\ ValidCode(name, data.totp_code)
               /\ (right /\ data.totp_code \in {PyNone, PyStr("")})
                  => /\ exchange'.response.status = 400
                     /\ exchange'.response.detail.error_code
                            = "two_factor_required"
                     /\ NoCookies
               /\ (right /\ data.totp_code \notin {PyNone, PyStr("")}
                   /\ ~ValidCode(name, data.totp_code))
                  => /\ exchange'.response.status = 400
                     /\ exchange'.response.detail.error_code = "invalid_totp"
                     /\ NoCookies
               /\ ~right => NoCookies

\* C23: while is_totp_enabled is true for a user, login sets the cookies
\* only if the password is right and the supplied code is the one the
\* stored secret gives; with the right password and no code it fails with
\* two_factor_required, with a wrong code with invalid_totp, and sets no
\* cookie.
C23_LoginNeedsCode == [][LoginGuarded]_vars

\* a user with two-factor authentication enabled has logged in
C23_Witness ==
    /\ TotpEnabled("alice")
    /\ exchange.op = "login"
    /\ exchange.response.status = 200
    /\ exchange.response.cookies.refresh_token \in issued

\* is_totp_enabled implies a stored secret, and then a login with the
\* password and the code the secret gives now is granted
EnabledHasSecret ==
    \A name \in DOMAIN users :
        users[name].is_totp_enabled
        => /\ users[name].totp_secret \notin {PyNone, PyStr("")}
           /\ \A data \in {d \in LoginData :
                              /\ d.username = name
                              /\ d.password = "correct horse"
                              /\ ValidCode(name, d.totp_code)} :
                  "cookies" \in DOMAIN login(users, data, now)
           /\ \E d \in LoginData :
                  /\ d.username = name
                  /\ d.password = "correct horse"
                  /\ ValidCode(name, d.totp_code)

\* how the flag and the secret change
TotpStep ==
    \A name \in DOMAIN users :
        /\ (~users[name].is_totp_enabled /\ users'[name].is_totp_enabled)
           => /\ \E tok \in Tokens, code \in Codes :
                     TotpVerify(tok, code) /\ ValidCode(name, code)
              /\ users'[name].totp_secret = users[name].totp_secret
        /\ \A tok \in Tokens, fresh \in Secrets :
               (/\ exchange'.op = "totp_setup"
                /\ users[name].totp_secret \notin {PyNone, PyStr("")}
                /\ TotpSetup(tok, fresh))
               => users'[name] = users[name]
        /\ \A tok \in Tokens, csrf \in CsrfPairs :
               (/\ exchange'.op = "totp_disable"
                /\ exchange'.response.status = 200
                /\ TotpDisable(tok, csrf[1], csrf[2]))
               => /\ ~users'[name].is_totp_enabled
                  /\ users'[name].totp_secret = PyNone

\* C28: after any sequence of calls, is_totp_enabled implies a non-empty
\* stored secret; the flag becomes true only by a totp_verify whose code
\* the stored secret gives; totp_setup never replaces a secret; totp_disable
\* clears the flag and the secret; a user with the flag set can log in with
\* a code valid for the stored secret.
C28_TotpLifecycle == []EnabledHasSecret /\ [][TotpStep]_vars

\* two-factor authentication is enabled and a later totp_setup has
\* returned the stored secret
C28_Witness ==
    /\ TotpEnabled("alice")
    /\ exchange.op = "totp_setup"
    /\ exchange.response.status = 200
    /\ PyStr(exchange.response.provision_uri.secret)
           = users["alice"].totp_secret

\* the fields other than k that are not calculate fields and declare label
OtherDeclarers(k, label) ==
    {j \in 1..Len(fields) :
        /\ j # k
        /\ fields[j].field_type # "calculate"
        /\ \E n \in 1..Len(fields[j].labels) : fields[j].labels[n] = label}

\* C24 (as claimed): once the template is parsed, every calculate field has
\* at least two labels and each of them is declared by exactly one other
\* field that is not a calculate field.
C24_CalculateLabels ==
    ~parse.running
    => \A k \in 1..Len(fields) :
           fields[k].field_type = "calculate"
           => /\ Len(fields[k].labels) >= 2
              /\ \A n \in 1..Len(fields[k].labels) :
                     Cardinality(OtherDeclarers(k, fields[k].labels[n])) = 1

\* the index of the last separator entry of the scanner's list, 0 if none
LastSeparator(st) ==
    LET S == {k \in 1..Len(st.fields) : st.fields[k].field_type = "separator"}
    IN  IF S = {} THEN 0 ELSE CHOOSE k \in S : \A j \in S : j <= k

\* a separator has been read and no header since
SinceSeparator(st) ==
    /\ LastSeparator(st) > 0
    /\ \A k \in (LastSeparator(st) + 1)..Len(st.fields) :
           st.fields[k].field_type \in {"prose", "icon"}

\* after a separator and before the next header no field is open
SeparatorCloses == parse.running /\ SinceSeparator(parse.st)
                   => parse.st.current_field = 0

\* reading a separator, and reading a plain line after one
SeparatorStep ==
    Reading /\ parse'.running
    => \A l \in {NextLine} :
           /\ l = "---"
              => /\ parse'.st.fields
                        = Append(parse.st.fields,
                                 TemplateField("__separator__", "separator"))
                 /\ parse'.st.current_field = 0
                 /\ ~parse'.st.in_field_type_options
           /\ (SinceSeparator(parse.st) /\ l # "" /\ ~Structural(l))
              => /\ Len(parse'.st.fields) >= Len(parse.st.fields)
                 /\ \A k \in 1..LastSeparator(parse.st) :
                        parse'.st.fields[k] = parse.st.fields[k]
                 /\ Last(parse'.st.fields).field_type = "prose"
                 /\ Last(parse'.st.fields).name = "__prose__"
                 /\ Last(Last(parse'.st.fields).prose_lines) = l
                 /\ Last(parse'.st.fields).options = <<>>
                 /\ parse'.st.current_field = 0

\* C25: a separator line appends a SEPARATOR entry and closes the open
\* field; a plain line read after a separator and before the next header is
\* stored in a standalone PROSE entry after the separator and leaves every
\* entry up to the separator, the field before it included, as it was.
C25_SeparatorCloses == []SeparatorCloses /\ [][SeparatorStep]_vars

\* a field that was collecting options, a separator, and an option line
\* kept as prose after it
C25_Witness ==
    /\ parse.running
    /\ \E k \in 2..(Len(parse.st.fields) - 1) :
           /\ parse.st.fields[k].field_type = "separator"
           /\ parse.st.fields[k - 1].field_type = "select"
           /\ Len(parse.st.fields[k - 1].options) = 1
           /\ parse.st.fields[k + 1].field_type = "prose"
           /\ parse.st.fields[k + 1].prose_lines = <<"2 - B: b [L1]", "TBC">>

\* the kinds a type marker names
MarkerKinds == {"multiselect", "select", "calculate", "code"}

\* the line starts with a type marker
HasMarker(l) == \E kind \in MarkerKinds : StartsWith(l, "[" \o kind \o "]")

\* the positions of the line where a bracketed single capital letter starts
CapitalsAt(l) ==
    {i \in 1..(Len(l) - 2) :
        Ch(l, i) = "[" /\ Ch(l, i + 1) \in UpperCase /\ Ch(l, i + 2) = "]"}

\* the bracketed single capital letters of the line, in order
Capitals(l) ==
    [n \in 1..Cardinality(CapitalsAt(l)) |->
        Ch(l, 1 + CHOOSE i \in CapitalsAt(l) :
                      Cardinality({j \in CapitalsAt(l) : j < i}) = n - 1)]

\* the n-th line of the template, stripped
Line(n) == Strip(template_file[n])

\* the last header, separator or icon line read so far, 0 if none
LastStructural ==
    LET S == {n \in 1..parse.i : Structural(Line(n))}
    IN  IF S = {} THEN 0 ELSE CHOOSE n \in S : \A j \in S : j <= n

\* the last structural line read is a header
FieldOpen == LastStructural > 0 /\ StartsWith(Line(LastStructural), "### ")

\* a field is open exactly from its header to the next header, separator
\* or icon marker, and collects options exactly from its first type marker on
OptionRegion ==
    parse.running
    => /\ parse.st.current_field # 0 <=> FieldOpen
       /\ FieldOpen => parse.st.current_field = Len(parse.st.fields)
       /\ parse.st.in_field_type_options
          <=> /\ FieldOpen
              /\ \E n \in (LastStructural + 1)..parse.i : HasMarker(Line(n))

\* reading a header, a type marker inside a field, and an option line
\* where options are collected; and no other way for options to change
FieldStep ==
    Reading /\ parse'.running
    => \A l \in {NextLine}, cur \in {parse.st.current_field} :
           /\ (StartsWith(l, "### ") /\ ~StartsWith(l, "<!-- [icon] -->"))
              => /\ parse'.st.fields
                        = Append(parse.st.fields,
                                 TemplateField(Strip(From(l, 5)), "text"))
                 /\ parse'.st.current_field = Len(parse.st.fields) + 1
           /\ (cur # 0 /\ HasMarker(l))
              => /\ \A kind \in MarkerKinds :
                        StartsWith(l, "[" \o kind \o "]")
                        => parse'.st.fields[cur].field_type = kind
                 /\ parse'.st.fields[cur].labels = Capitals(l)
                 /\ parse'.st.fields
                        = [parse.st.fields EXCEPT
                              ![cur].field_type = parse'.st.fields[cur].field_type,
                              ![cur].labels = Capitals(l)]
                 /\ parse'.st.current_field = cur
           /\ (cur # 0 /\ parse.st.in_field_type_options /\ OptionMatch(l).ok)
              => /\ Len(parse'.st.fields[cur].options)
                        = Len(parse.st.fields[cur].options) + 1
                 /\ Last(parse'.st.fields[cur].options).raw_line = l
                 /\ Last(parse'.st.fields[cur].options).key
                        = OptionMatch(l).key
                 /\ parse'.st.fields
                        = [parse.st.fields EXCEPT
                              ![cur].options =
                                  Append(@, Last(parse'.st.fields[cur].options))]
                 /\ parse'.st.current_field = cur
           /\ \A k \in 1..Len(parse.st.fields) :
                  parse'.st.fields[k].options # parse.st.fields[k].options
                  => /\ k = cur
                     /\ parse.st.in_field_type_options
                     /\ OptionMatch(l).ok \/ l = "TBC"

\* C26: a header line appends a field of kind text and makes it the open
\* field; a type marker line read while a field is open sets that field's
\* kind to the named kind and its labels to the bracketed single capital
\* letters of the line, in order, and changes nothing else; an option line
\* read after the marker and before the next header, separator or icon
\* marker is appended to that field's options and changes no other entry.
C26_HeaderMarkerOptions == []OptionRegion /\ [][FieldStep]_vars

\* the calculate field of the risk template with its two labels and its two
\* options in line order
C26_Witness ==
    /\ parse.running
    /\ parse.st.current_field = 3
    /\ parse.st.fields[3].name = "Risk"
    /\ parse.st.fields[3].field_type = "calculate"
    /\ parse.st.fields[3].labels = <<"L", "S">>
    /\ Len(parse.st.fields[3].options) = 2
    /\ parse.st.fields[3].options[1].key = "1"
    /\ parse.st.fields[3].options[2].raw_line = "2 - High [L2-S2, L1-S2]"
    /\ parse.st.fields[1].labels = <<"L">>
    /\ Len(parse.st.fields[1].options) = 3

\* an integer, or the decimal string of one
IntegerLike(e) ==
    e.t = "int" \/ (e.t = "str" /\ \E k \in 0..9 : IntStr(k) = e.s)

\* the list with every entry as an integer
AsIntegers(v) ==
    PyList([n \in 1..Len(v.l) |->
               IF v.l[n].t = "int" THEN v.l[n]
               ELSE PyInt(CHOOSE k \in 0..9 : IntStr(k) = v.l[n].s)])

\* C27 (as claimed): for a list of integers and integer-like strings as the
\* "General utility label" entry, the icon line is the one rendered for the
\* same keys supplied as integers.
C27_IconSameForStrings ==
    \A t \in Threads :
        JustRendered(t, "icon")
        => \A v \in {UtilityValue(t)} :
               (/\ v.t = "list" /\ v.l # <<>>
                /\ \A n \in 1..Len(v.l) : IntegerLike(v.l[n]))
               => frame[t].lines[Len(frame[t].lines) - 1]
                      = IconOutput([u \in {"General utility label"} |->
                                       AsIntegers(v)]).lines[1]

\* no two stored subscriptions have the same endpoint
NoDuplicateEndpoints ==
    \A m, n \in 1..Len(SUBSCRIPTIONS) :
        SUBSCRIPTIONS[m].endpoint = SUBSCRIPTIONS[n].endpoint => m = n

\* the subscription a send-test is about to remove is still in the list
RemoveFinds ==
    \A h \in Handlers :
        handler[h].pc = "remove"
        => Holds(SUBSCRIPTIONS, handler[h].copy[handler[h].i])

\* C29 (as claimed): with subscribe and send-test requests handled
\* concurrently, no two stored subscriptions share an endpoint, and the
\* removal of a send-test never finds that another request has already
\* taken the subscription out of the list.
C29_ConcurrentRequests == NoDuplicateEndpoints /\ RemoveFinds

\* the batches one after the other
RECURSIVE Flat(_)
Flat(bs) == IF bs = <<>> THEN <<>> ELSE Head(bs) \o Flat(Tail(bs))

\* the sum of the formatted block sizes of the files of a batch
RECURSIVE BatchSize(_)
BatchSize(b) ==
    IF b = <<>> THEN 0
    ELSE 17 + Len(Head(b)[1]) + Head(b)[2].chars + BatchSize(Tail(b))

\* no batch is empty, and a batch of two files or more is within the limit
WellSized(bs) ==
    \A n \in 1..Len(bs) :
        /\ bs[n] # <<>>
        /\ Len(bs[n]) > 1 => BatchSize(bs[n]) <= BATCH_MAX_CHARS

\* C30: when the batching loop of prepare_stage_2() has ended, the batches
\* concatenated in order are the analysis files in order, no batch is
\* empty, and every batch of more than one file has a total formatted block
\* size of at most BATCH_MAX_CHARS; while it runs, the closed batches and
\* the current one are the files read so far.
C30_BatchesPartition ==
    /\ batching.pc = "done"
       => /\ Flat(batching.batches) = batching.analysis_files
          /\ WellSized(batching.batches)
    /\ batching.pc = "loop"
       => /\ Flat(batching.batches) \o batching.current_batch
                 = SubSeq(batching.analysis_files, 1, batching.i - 1)
          /\ WellSized(batching.batches)

\* the loop has ended with a batch of two files that is exactly at the
\* limit and a batch of one file over it
C30_Witness ==
    /\ batching.pc = "done"
    /\ \E m, n \in 1..Len(batching.batches) :
           /\ Len(batching.batches[m]) = 2
           /\ BatchSize(batching.batches[m]) = BATCH_MAX_CHARS
           /\ Len(batching.batches[n]) = 1
           /\ BatchSize(batching.batches[n]) > BATCH_MAX_CHARS

====
